---------------------------- MODULE Spec2Model ----------------------------
(***************************************************************************)
(* A model of the bytecode machine of antonromanov1/vm:                    *)
(*   - the binary codec (assembler.rs write_inst, vm.rs fetch_insts),      *)
(*   - the basic-block leader analysis (jit.rs find_leaders),              *)
(*   - the Layout and DataFlowGraph containers (jit.rs),                   *)
(*   - the assembler front end (assembler.rs Lexer / Parser),              *)
(*   - the interpreter (vm.rs interpret).                                  *)
(*                                                                         *)
(* Each component has its own specification over the shared variables;    *)
(* a component's specification leaves the other components' variables     *)
(* at their initial values.                                                *)
(*                                                                         *)
(* Wide integers: TLC's integers are 32-bit, so a u32 is kept as two       *)
(* 16-bit halves [hi, lo] and a u64 as four 16-bit limbs, least            *)
(* significant first. All arithmetic on them is done limb by limb with     *)
(* explicit carries, so the width of the source's types is kept.           *)
(***************************************************************************)
EXTENDS Integers, Sequences, FiniteSets, TLC

VARIABLES
    \* assembler.rs main(): the instructions being written and the file
    instructions, file,
    \* vm.rs fetch_insts(): the bytes read, the iterator position, the result
    written, buffer, iter, vm_ret, fetch_status

    ,
    \* jit.rs find_leaders(): the program, the result vector, the loop index
    bc, leaders, fl_i, fl_status,
    \* jit.rs struct Layout {blocks, insts, first_block, last_block}, and the
    \* history of the calls made on it since it was created or cleared:
    \* the blocks in the order appended, and each instruction's block
    layout, appended_blocks, appended_to,
    \* whether a call on the layout has failed one of its debug_assert!s
    layout_status,
    \* whether layout.clear() has been called on the layout
    cleared,
    \* jit.rs struct DataFlowGraph {insts, users}, and the ids that the
    \* make_inst calls on it returned, in call order
    dfg, made,
    \* vm.rs interpret(): the program, the accumulator, the registers, the
    \* instruction pointer `i`, the lines printed, how the run stands, and
    \* the number of instructions executed
    insts, acc, regs, interp_i, output, run_status, steps,
    \* The build's setting of arithmetic overflow checks: on in a debug
    \* build, off in a release build. No action changes it.
    overflow_checks,
    \* The build's setting of debug assertions (debug_assert!): on in a
    \* debug build, off in a release build. No action changes it.
    debug_assertions,
    \* assembler.rs: the source file's characters, the statements they were
    \* written from, struct Lexer, and the locals of Parser::fetch_insts
    src, lines, lex, ret, labels, parse_status,
    \* the tokens that the calls of Lexer::scan made on the lexer itself,
    \* outside the parser, have returned, in call order
    scan_calls

codecVars == <<instructions, file, written, buffer, iter, vm_ret, fetch_status>>

leaderVars == <<bc, leaders, fl_i, fl_status>>

layoutVars == <<layout, appended_blocks, appended_to, layout_status, cleared>>

dfgVars == <<dfg, made>>

interpVars == <<insts, acc, regs, interp_i, output, run_status, steps>>

buildVars == <<overflow_checks, debug_assertions>>

asmVars == <<src, lines, lex, ret, labels, parse_status, scan_calls>>

vars ==
    <<codecVars, leaderVars, layoutVars, dfgVars, interpVars, buildVars,
      asmVars>>

\* What each component's actions leave alone: the other components.
notCodec == <<leaderVars, layoutVars, dfgVars, interpVars, buildVars, asmVars>>

notLeaders == <<codecVars, layoutVars, dfgVars, interpVars, buildVars, asmVars>>

notLayout == <<codecVars, leaderVars, dfgVars, interpVars, buildVars, asmVars>>

notDfg == <<codecVars, leaderVars, layoutVars, interpVars, buildVars, asmVars>>

notInterp == <<codecVars, leaderVars, layoutVars, dfgVars, buildVars, asmVars>>

notAsm == <<codecVars, leaderVars, layoutVars, dfgVars, interpVars, buildVars>>

-----------------------------------------------------------------------------
(* Sequences                                                               *)

\* All sequences over S of length at most n.
SeqsUpTo(S, n) == UNION {[1 .. k -> S] : k \in 0 .. n}

\* The elements of a sequence.
Range(s) == {s[k] : k \in 1 .. Len(s)}

-----------------------------------------------------------------------------
(* Machine integers                                                        *)

\* 2^8: the number of values of a byte (u8).
ByteRange == 256

\* 2^16: the radix of the limbs that u32 and u64 values are kept in.
Limb == ByteRange * ByteRange

\* A u32 value hi * 2^16 + lo.
U32(hi, lo) == [hi |-> hi, lo |-> lo]

U32Zero == U32(0, 0)

U32Max == U32(Limb - 1, Limb - 1)

\* A small integer as a u32 (`x as u32` for 0 <= x < 2^16).
U32Of(n) == U32(0, n)

IsByte(b) == b \in 0 .. (ByteRange - 1)

\* A u64 value: four 16-bit limbs, the least significant first.
U64Zero == <<0, 0, 0, 0>>

U64Max == <<Limb - 1, Limb - 1, Limb - 1, Limb - 1>>

\* `imm as u64`: the zero extension of a u32.
u32_as_u64(imm) == <<imm.lo, imm.hi, 0, 0>>

\* a + b on u64: the sum modulo 2^64 and whether it overflowed.
u64_add(a, b) ==
    LET s1 == a[1] + b[1]
        s2 == a[2] + b[2] + s1 \div Limb
        s3 == a[3] + b[3] + s2 \div Limb
        s4 == a[4] + b[4] + s3 \div Limb
    IN  [value |-> <<s1 % Limb, s2 % Limb, s3 % Limb, s4 % Limb>>,
         overflow |-> s4 \div Limb # 0]

\* a - 1 on u64: the difference modulo 2^64 and whether it overflowed.
u64_sub_one(a) ==
    LET d1 == a[1] - 1
        d2 == a[2] - (IF d1 < 0 THEN 1 ELSE 0)
        d3 == a[3] - (IF d2 < 0 THEN 1 ELSE 0)
        d4 == a[4] - (IF d3 < 0 THEN 1 ELSE 0)
    IN  [value |-> <<d1 % Limb, d2 % Limb, d3 % Limb, d4 % Limb>>,
         overflow |-> d4 < 0]

-----------------------------------------------------------------------------
(* bytecode.rs: the instruction set                                        *)

Mov(v1, v2) == [op |-> "Mov", v1 |-> v1, v2 |-> v2, imm |-> U32Zero]

Movi(v, imm) == [op |-> "Movi", v1 |-> v, v2 |-> 0, imm |-> imm]

Ldai(imm) == [op |-> "Ldai", v1 |-> 0, v2 |-> 0, imm |-> imm]

Lda(v) == [op |-> "Lda", v1 |-> v, v2 |-> 0, imm |-> U32Zero]

Sta(v) == [op |-> "Sta", v1 |-> v, v2 |-> 0, imm |-> U32Zero]

Add(v) == [op |-> "Add", v1 |-> v, v2 |-> 0, imm |-> U32Zero]

Dec(v) == [op |-> "Dec", v1 |-> v, v2 |-> 0, imm |-> U32Zero]

Bne(v1, v2, imm) == [op |-> "Bne", v1 |-> v1, v2 |-> v2, imm |-> imm]

PrintInst == [op |-> "Print", v1 |-> 0, v2 |-> 0, imm |-> U32Zero]

\* Inst::is_branch
is_branch(inst) == inst.op = "Bne"

\* impl TryInto<u8> for Inst: the opcode byte of an instruction.
try_into(inst) ==
    CASE inst.op = "Mov" -> 0
      [] inst.op = "Movi" -> 1
      [] inst.op = "Ldai" -> 2
      [] inst.op = "Lda" -> 3
      [] inst.op = "Sta" -> 4
      [] inst.op = "Add" -> 5
      [] inst.op = "Dec" -> 6
      [] inst.op = "Bne" -> 7
      [] inst.op = "Print" -> 8

-----------------------------------------------------------------------------
(* assembler.rs: write_imm / write_inst                                    *)

\* The bytes of a u32 in memory order, most significant byte first: what
\* write_imm would produce if it wrote the value big-endian.
write_imm_big_endian(imm) ==
    <<imm.hi \div ByteRange, imm.hi % ByteRange,
      imm.lo \div ByteRange, imm.lo % ByteRange>>

\* write_imm writes the four bytes of the u32 as they lie in memory. The
\* model fixes the target to a little-endian one (x86-64, aarch64), where
\* that is the least significant byte first.
write_imm(imm) ==
    <<imm.lo % ByteRange, imm.lo \div ByteRange,
      imm.hi % ByteRange, imm.hi \div ByteRange>>

\* An encoding that puts the immediate before the registers.
write_inst_imm_first(inst) ==
    <<try_into(inst)>> \o
    ( CASE inst.op = "Mov" -> <<inst.v1, inst.v2>>
        [] inst.op = "Movi" -> write_imm(inst.imm) \o <<inst.v1>>
        [] inst.op = "Ldai" -> write_imm(inst.imm)
        [] inst.op \in {"Lda", "Sta", "Add", "Dec"} -> <<inst.v1>>
        [] inst.op = "Bne" -> write_imm(inst.imm) \o <<inst.v1, inst.v2>>
        [] inst.op = "Print" -> <<>> )

\* write_inst: the bytes appended to the file for one instruction.
write_inst(inst) ==
    <<try_into(inst)>> \o
    ( CASE inst.op = "Mov" -> <<inst.v1, inst.v2>>
        [] inst.op = "Movi" -> <<inst.v1>> \o write_imm(inst.imm)
        [] inst.op = "Ldai" -> write_imm(inst.imm)
        [] inst.op \in {"Lda", "Sta", "Add", "Dec"} -> <<inst.v1>>
        [] inst.op = "Bne" -> <<inst.v1, inst.v2>> \o write_imm(inst.imm)
        [] inst.op = "Print" -> <<>> )

-----------------------------------------------------------------------------
(* vm.rs: fetch_insts                                                      *)

\* u32::from_le_bytes of the four bytes b[at .. at+3].
from_le_bytes(b, at) ==
    U32(b[at + 2] + ByteRange * b[at + 3], b[at] + ByteRange * b[at + 1])

\* The number of operand bytes the decoder takes after each opcode byte
\* (the iter.next().unwrap() calls of the opcode's branch).
operand_bytes(opcode) ==
    CASE opcode = 0 -> 2
      [] opcode = 1 -> 5
      [] opcode = 2 -> 4
      [] opcode \in {3, 4, 5, 6} -> 1
      [] opcode = 7 -> 6
      [] opcode = 8 -> 0
      [] OTHER -> 0

\* The instruction a branch of the decoder builds from the operand bytes
\* that start at buf[at].
decode_inst(opcode, buf, at) ==
    CASE opcode = 0 -> Mov(buf[at], buf[at + 1])
      [] opcode = 1 -> Movi(buf[at], from_le_bytes(buf, at + 1))
      [] opcode = 2 -> Ldai(from_le_bytes(buf, at))
      [] opcode = 3 -> Lda(buf[at])
      [] opcode = 4 -> Sta(buf[at])
      [] opcode = 5 -> Add(buf[at])
      [] opcode = 6 -> Dec(buf[at])
      [] opcode = 7 -> Bne(buf[at], buf[at + 1], from_le_bytes(buf, at + 2))
      [] opcode = 8 -> PrintInst

\* The outcomes of fetch_insts that are panics (the process aborts): an
\* iter.next().unwrap() on an exhausted iterator, and the panic!() of the
\* final else branch.
FetchPanics == {"panic_unwrap_none", "panic_invalid_opcode"}

\* The state of the codec before anything runs.
CodecIdle ==
    /\ instructions = <<>>
    /\ file = <<>>
    /\ written = 0
    /\ buffer = <<>>
    /\ iter = 1
    /\ vm_ret = <<>>
    /\ fetch_status = "idle"

\* assembler.rs main(): one iteration of `for inst in instructions`.
WriteInst ==
    /\ fetch_status = "idle"
    /\ written < Len(instructions)
    /\ file' = file \o write_inst(instructions[written + 1])
    /\ written' = written + 1
    /\ UNCHANGED <<instructions, buffer, iter, vm_ret, fetch_status>>
    /\ UNCHANGED notCodec

\* vm.rs fetch_insts, lines 11-14: read the whole file, start the loop.
FetchStart ==
    /\ fetch_status = "idle"
    /\ written = Len(instructions)
    /\ buffer' = file
    /\ iter' = 1
    /\ vm_ret' = <<>>
    /\ fetch_status' = "loop"
    /\ UNCHANGED <<instructions, file, written>>
    /\ UNCHANGED notCodec

\* vm.rs fetch_insts, lines 16-67: one iteration of the decoding loop.
FetchStep ==
    /\ fetch_status = "loop"
    /\ IF iter > Len(buffer)
       THEN /\ fetch_status' = "returned"
            /\ UNCHANGED <<iter, vm_ret>>
       ELSE LET opcode == buffer[iter]
                n == operand_bytes(opcode)
            IN  IF opcode > 8
                THEN /\ fetch_status' = "panic_invalid_opcode"
                     /\ UNCHANGED <<iter, vm_ret>>
                ELSE IF iter + n > Len(buffer)
                THEN /\ fetch_status' = "panic_unwrap_none"
                     /\ UNCHANGED <<iter, vm_ret>>
                ELSE /\ vm_ret' = Append(vm_ret, decode_inst(opcode, buffer, iter + 1))
                     /\ iter' = iter + 1 + n
                     /\ UNCHANGED fetch_status
    /\ UNCHANGED <<instructions, file, written, buffer>>
    /\ UNCHANGED notCodec

-----------------------------------------------------------------------------
(* jit.rs: find_leaders                                                    *)

\* `imm as usize`: a u32 as an index.
as_usize(imm) == imm.hi * Limb + imm.lo

\* The state of find_leaders before it is called.
LeadersIdle ==
    /\ bc = <<>>
    /\ leaders = <<>>
    /\ fl_i = 0
    /\ fl_status = "idle"

\* The first index the loop of find_leaders looks at (`for i in 1..`).
fl_first_index == 1

\* find_leaders, lines 9-16: an empty program returns an empty vector; a
\* non-empty one starts with leader 0 and enters the loop.
FindLeadersStart ==
    /\ fl_status = "idle"
    /\ IF bc = <<>>
       THEN /\ leaders' = <<>>
            /\ fl_status' = "returned"
            /\ UNCHANGED fl_i
       ELSE /\ leaders' = <<0>>
            /\ fl_i' = fl_first_index
            /\ fl_status' = "loop"
    /\ UNCHANGED bc
    /\ UNCHANGED notLeaders

\* An iteration that pushes i + 1 after every branch.
leaders_of_always_next(prog, i) ==
    IF is_branch(prog[i + 1])
    THEN <<as_usize(prog[i + 1].imm), i + 1>>
    ELSE <<>>

\* The leaders one iteration pushes for the instruction at index i
\* (0-based as in the source; bc[i + 1] here), lines 19-28.
leaders_of(prog, i) ==
    IF is_branch(prog[i + 1])
    THEN <<as_usize(prog[i + 1].imm)>> \o
         (IF i + 1 < Len(prog) THEN <<i + 1>> ELSE <<>>)
    ELSE <<>>

\* find_leaders, lines 18-39: one iteration of `for i in 1..bc.len()`, or
\* the return of the vector as it stands when the range is exhausted.
FindLeadersStep ==
    /\ fl_status = "loop"
    /\ IF fl_i < Len(bc)
       THEN /\ leaders' = leaders \o leaders_of(bc, fl_i)
            /\ fl_i' = fl_i + 1
            /\ UNCHANGED fl_status
       ELSE /\ fl_status' = "returned"
            /\ UNCHANGED <<leaders, fl_i>>
    /\ UNCHANGED bc
    /\ UNCHANGED notLeaders

-----------------------------------------------------------------------------
(* jit.rs: SecondaryMap, Layout                                            *)

\* Option<T>: None is the empty sequence, Some(x) the sequence <<x>>.
None == <<>>

Some(x) == <<x>>

unwrap(o) == o[1]

\* BlockNode::default() and InstNode::default() (#[derive(Default)]).
BlockNodeDefault ==
    [prev |-> None, next |-> None, first_phi |-> None,
     first_inst |-> None, last_inst |-> None]

InstNodeDefault == [block |-> None, prev |-> None, next |-> None]

\* A SecondaryMap is kept as the function that its HashMap is, on the keys
\* the HashMap holds, and its default value is passed where it is read.
\* SecondaryMap::new
sm_new == <<>>

\* impl Index for SecondaryMap: map.get(&index).unwrap_or(&default)
sm_index(map, index, default) ==
    IF index \in DOMAIN map THEN map[index] ELSE default

\* impl IndexMut for SecondaryMap, followed by the store of `value` through
\* the reference it returns: the key is inserted when it is not there.
sm_store(map, index, value) ==
    [k \in DOMAIN map \cup {index} |-> IF k = index THEN value ELSE map[k]]

\* Layout::new
layout_new ==
    [blocks |-> sm_new, insts |-> sm_new,
     first_block |-> None, last_block |-> None]

\* A clear that leaves the instructions' nodes as they are.
layout_clear_keeps_insts(l) ==
    [blocks |-> sm_new, insts |-> l.insts,
     first_block |-> None, last_block |-> None]

\* Layout::clear
layout_clear(l) ==
    [blocks |-> sm_new, insts |-> sm_new,
     first_block |-> None, last_block |-> None]

block_node(l, block) == sm_index(l.blocks, block, BlockNodeDefault)

inst_node(l, inst) == sm_index(l.insts, inst, InstNodeDefault)

\* A presence test that looks at the block's prev link only.
is_block_inserted_prev_only(l, block) == block_node(l, block).prev # None

\* Layout::is_block_inserted
is_block_inserted(l, block) ==
    Some(block) = l.first_block \/ block_node(l, block).prev # None

\* Layout::inst_block
inst_block(l, inst) == inst_node(l, inst).block

\* Layout::next_block
next_block(l, block) == block_node(l, block).next

\* The debug_assert!s of append_block: the conditions under which the call
\* is accepted.
append_block_accepted(l, block) ==
    /\ ~is_block_inserted(l, block)
    /\ block_node(l, block).first_inst = None
    /\ block_node(l, block).last_inst = None

\* append_block without the link from the old last block to the new one.
append_block_no_next(l, block) ==
    LET node == [block_node(l, block) EXCEPT !.prev = l.last_block,
                                             !.next = None]
    IN  [l EXCEPT !.blocks = sm_store(l.blocks, block, node),
                  !.first_block =
                      IF l.last_block = None THEN Some(block) ELSE @,
                  !.last_block = Some(block)]

\* Layout::append_block
append_block(l, block) ==
    LET node == [block_node(l, block) EXCEPT !.prev = l.last_block,
                                             !.next = None]
        blocks1 == sm_store(l.blocks, block, node)
    IN  IF l.last_block # None
        THEN LET last == unwrap(l.last_block)
                 last_node == [sm_index(blocks1, last, BlockNodeDefault)
                                  EXCEPT !.next = Some(block)]
             IN  [l EXCEPT !.blocks = sm_store(blocks1, last, last_node),
                           !.last_block = Some(block)]
        ELSE [l EXCEPT !.blocks = blocks1,
                       !.first_block = Some(block),
                       !.last_block = Some(block)]

\* The debug_assert!s of append_inst: the conditions under which the call
\* is accepted.
append_inst_accepted(l, inst, block) ==
    /\ inst_block(l, inst) = None
    /\ is_block_inserted(l, block)
    /\ inst_node(l, inst).next = None

\* append_inst without the back link of the new instruction.
append_inst_no_prev(l, inst, block) ==
    LET bnode == block_node(l, block)
        inode == [inst_node(l, inst) EXCEPT !.block = Some(block)]
        insts1 == sm_store(l.insts, inst, inode)
        insts2 ==
            IF bnode.first_inst = None
            THEN insts1
            ELSE LET last == unwrap(bnode.last_inst)
                 IN  sm_store(insts1, last,
                         [sm_index(insts1, last, InstNodeDefault)
                             EXCEPT !.next = Some(inst)])
        bnode2 == [bnode EXCEPT
                     !.first_inst = IF @ = None THEN Some(inst) ELSE @,
                     !.last_inst = Some(inst)]
    IN  [l EXCEPT !.insts = insts2,
                  !.blocks = sm_store(l.blocks, block, bnode2)]

\* Layout::append_inst
append_inst(l, inst, block) ==
    LET bnode == block_node(l, block)
        inode == [inst_node(l, inst) EXCEPT !.block = Some(block),
                                            !.prev = bnode.last_inst]
        insts1 == sm_store(l.insts, inst, inode)
        insts2 ==
            IF bnode.first_inst = None
            THEN insts1
            ELSE LET last == unwrap(bnode.last_inst)
                 IN  sm_store(insts1, last,
                         [sm_index(insts1, last, InstNodeDefault)
                             EXCEPT !.next = Some(inst)])
        bnode2 == [bnode EXCEPT
                     !.first_inst = IF @ = None THEN Some(inst) ELSE @,
                     !.last_inst = Some(inst)]
    IN  [l EXCEPT !.insts = insts2,
                  !.blocks = sm_store(l.blocks, block, bnode2)]

\* Layout::blocks and Blocks::next: the blocks the iterator yields from
\* `next` on, within `fuel` calls; done tells whether it reached None.
RECURSIVE blocks_from(_, _, _)
blocks_from(l, next, fuel) ==
    IF next = None THEN [items |-> <<>>, done |-> TRUE]
    ELSE IF fuel = 0 THEN [items |-> <<>>, done |-> FALSE]
    ELSE LET rest == blocks_from(l, next_block(l, unwrap(next)), fuel - 1)
         IN  [items |-> <<unwrap(next)>> \o rest.items, done |-> rest.done]

\* The state of the layout before it is used.
LayoutIdle ==
    /\ layout = layout_new
    /\ appended_blocks = <<>>
    /\ appended_to = <<>>
    /\ layout_status = "ok"
    /\ cleared = FALSE

\* A call layout.append_block(block) that passes the assertions.
AppendBlock(block) ==
    /\ append_block_accepted(layout, block)
    /\ layout' = append_block(layout, block)
    /\ appended_blocks' = Append(appended_blocks, block)
    /\ UNCHANGED <<appended_to, layout_status, cleared>>
    /\ UNCHANGED notLayout

\* A call layout.append_inst(inst, block) that passes the assertions.
AppendInst(inst, block) ==
    /\ append_inst_accepted(layout, inst, block)
    /\ layout' = append_inst(layout, inst, block)
    /\ appended_to' = sm_store(appended_to, inst, block)
    /\ UNCHANGED <<appended_blocks, layout_status, cleared>>
    /\ UNCHANGED notLayout

\* A call layout.clear().
LayoutClear ==
    /\ layout' = layout_clear(layout)
    /\ appended_blocks' = <<>>
    /\ appended_to' = <<>>
    /\ cleared' = TRUE
    /\ UNCHANGED layout_status
    /\ UNCHANGED notLayout

\* The most blocks and instructions appended between two clears when the
\* calls are not restricted to the accepted ones.
MaxAppends == 3

\* The number of blocks and instructions appended so far.
appends == Len(appended_blocks) + Cardinality(DOMAIN appended_to)

\* A call layout.append_block(block) with any argument: in a build with
\* debug assertions a call that fails one of them panics before it writes
\* (lines 184-190); otherwise the body runs.
AppendBlockCall(block) ==
    /\ layout_status = "ok"
    /\ appends < MaxAppends
    /\ IF debug_assertions /\ ~append_block_accepted(layout, block)
       THEN /\ layout_status' = "panic_debug_assert"
            /\ UNCHANGED <<layout, appended_blocks, appended_to, cleared>>
       ELSE /\ layout' = append_block(layout, block)
            /\ appended_blocks' = Append(appended_blocks, block)
            /\ UNCHANGED <<appended_to, layout_status, cleared>>
    /\ UNCHANGED notLayout

\* A call layout.append_inst(inst, block) with any arguments (assertions
\* at lines 210-214 and 222).
AppendInstCall(inst, block) ==
    /\ layout_status = "ok"
    /\ appends < MaxAppends
    /\ IF debug_assertions /\ ~append_inst_accepted(layout, inst, block)
       THEN /\ layout_status' = "panic_debug_assert"
            /\ UNCHANGED <<layout, appended_blocks, appended_to, cleared>>
       ELSE /\ layout' = append_inst(layout, inst, block)
            /\ appended_to' = sm_store(appended_to, inst, block)
            /\ UNCHANGED <<appended_blocks, layout_status, cleared>>
    /\ UNCHANGED notLayout

-----------------------------------------------------------------------------
(* jit.rs: InstData, DataFlowGraph                                         *)

\* enum InstData: the four variants. A variant's unused fields are kept
\* at a fixed value.
Constant(opcode, value) ==
    [kind |-> "Constant", opcode |-> opcode, value |-> value,
     inputs |-> <<>>, succs |-> <<>>]

Binary(opcode, inputs) ==
    [kind |-> "Binary", opcode |-> opcode, value |-> 0,
     inputs |-> inputs, succs |-> <<>>]

BneData(opcode, inputs, succs) ==
    [kind |-> "Bne", opcode |-> opcode, value |-> 0,
     inputs |-> inputs, succs |-> succs]

Phi(opcode, inputs) ==
    [kind |-> "Phi", opcode |-> opcode, value |-> 0,
     inputs |-> inputs, succs |-> <<>>]

\* InstData::inputs: None for a constant, else the vector of operands.
inputs(data) ==
    CASE data.kind = "Constant" -> None
      [] data.kind = "Binary" -> Some(<<data.inputs[1], data.inputs[2]>>)
      [] data.kind = "Bne" -> Some(<<data.inputs[1], data.inputs[2]>>)
      [] data.kind = "Phi" -> Some(data.inputs)

\* DataFlowGraph::new
dfg_new == [insts |-> <<>>, users |-> sm_new]

\* An id that does not depend on the instructions already made.
next_inst_id_constant(g) == 1

\* The id make_inst gives the next instruction: insts.len() + 1.
next_inst_id(g) == Cardinality(DOMAIN g.insts) + 1

\* The loop of make_inst, lines 307-309: self.users[input].insert(ret) for
\* the inputs from position k on.
RECURSIVE insert_users(_, _, _, _)
insert_users(users, ins, k, id) ==
    IF k > Len(ins) THEN users
    ELSE insert_users(
             sm_store(users, ins[k], sm_index(users, ins[k], {}) \cup {id}),
             ins, k + 1, id)

\* make_inst that records the new instruction only as a user of its first
\* operand.
make_inst_first_input(g, data) ==
    LET id == next_inst_id(g)
        users1 ==
            IF inputs(data) # None /\ Len(unwrap(inputs(data))) > 0
            THEN insert_users(g.users, SubSeq(unwrap(inputs(data)), 1, 1),
                              1, id)
            ELSE g.users
    IN  [insts |-> sm_store(g.insts, id, data), users |-> users1]

\* DataFlowGraph::make_inst: the graph after the call (the call returns
\* next_inst_id of the graph before it).
make_inst(g, data) ==
    LET id == next_inst_id(g)
        users1 ==
            IF inputs(data) # None
            THEN insert_users(g.users, unwrap(inputs(data)), 1, id)
            ELSE g.users
    IN  [insts |-> sm_store(g.insts, id, data), users |-> users1]

\* The state of the data-flow graph before it is used.
DfgIdle ==
    /\ dfg = dfg_new
    /\ made = <<>>

-----------------------------------------------------------------------------
(* vm.rs: interpret                                                        *)

\* The number of registers: vec![0; 256].
NumRegs == 256

\* The outcomes of interpret that are panics: an arithmetic overflow in a
\* build with overflow checks, and insts[i] with i past the end.
InterpPanics == {"panic_overflow", "panic_index_out_of_bounds"}

\* The state of the interpreter before it is called.
InterpIdle ==
    /\ insts = <<>>
    /\ acc = U64Zero
    /\ regs = [r \in 0 .. NumRegs - 1 |-> U64Zero]
    /\ interp_i = 0
    /\ output = <<>>
    /\ run_status = "idle"
    /\ steps = 0

\* interpret, lines 73-75: the zero-initialised locals.
InterpStart ==
    /\ run_status = "idle"
    /\ acc' = U64Zero
    /\ regs' = [r \in 0 .. NumRegs - 1 |-> U64Zero]
    /\ interp_i' = 0
    /\ output' = <<>>
    /\ run_status' = "running"
    /\ UNCHANGED <<insts, steps>>
    /\ UNCHANGED notInterp

\* Inst::Dec(v), lines 113-117: regs[v] = regs[v] - 1. The subtraction
\* panics on overflow in a build with overflow checks and wraps in one
\* without.
exec_dec(inst, a, r) ==
    LET d == u64_sub_one(r[inst.v1])
    IN  IF d.overflow /\ overflow_checks
        THEN [acc |-> a, regs |-> r, panic |-> TRUE]
        ELSE [acc |-> a, regs |-> [r EXCEPT ![inst.v1] = d.value],
              panic |-> FALSE]

\* An addition that also writes the sum to the register.
exec_add_into_register(inst, a, r) ==
    LET sum == u64_add(a, r[inst.v1])
    IN  IF sum.overflow /\ overflow_checks
        THEN [acc |-> a, regs |-> r, panic |-> TRUE]
        ELSE [acc |-> sum.value, regs |-> [r EXCEPT ![inst.v1] = sum.value],
              panic |-> FALSE]

\* Inst::Add(v), lines 108-112: acc = acc + regs[v], with the same
\* overflow behaviour.
exec_add(inst, a, r) ==
    LET sum == u64_add(a, r[inst.v1])
    IN  IF sum.overflow /\ overflow_checks
        THEN [acc |-> a, regs |-> r, panic |-> TRUE]
        ELSE [acc |-> sum.value, regs |-> r, panic |-> FALSE]

\* The accumulator and registers after one instruction (lines 82-130).
exec(inst, a, r) ==
    CASE inst.op = "Mov" ->
             [acc |-> a, regs |-> [r EXCEPT ![inst.v1] = r[inst.v2]],
              panic |-> FALSE]
      [] inst.op = "Movi" ->
             [acc |-> a, regs |-> [r EXCEPT ![inst.v1] = u32_as_u64(inst.imm)],
              panic |-> FALSE]
      [] inst.op = "Ldai" ->
             [acc |-> u32_as_u64(inst.imm), regs |-> r, panic |-> FALSE]
      [] inst.op = "Lda" ->
             [acc |-> r[inst.v1], regs |-> r, panic |-> FALSE]
      [] inst.op = "Sta" ->
             [acc |-> a, regs |-> [r EXCEPT ![inst.v1] = a], panic |-> FALSE]
      [] inst.op = "Add" -> exec_add(inst, a, r)
      [] inst.op = "Dec" -> exec_dec(inst, a, r)
      [] inst.op = "Bne" -> [acc |-> a, regs |-> r, panic |-> FALSE]
      [] inst.op = "Print" -> [acc |-> a, regs |-> r, panic |-> FALSE]

\* A pointer that takes the branch when the two registers are equal.
next_i_branch_if_equal(inst, r, i) ==
    IF inst.op = "Bne" /\ r[inst.v1] = r[inst.v2]
    THEN as_usize(inst.imm)
    ELSE i + 1

\* A pointer that always moves to the following instruction.
next_i_fall_through(inst, r, i) == i + 1

\* The instruction pointer after an instruction that did not panic.
next_i(inst, r, i) ==
    IF inst.op = "Bne" /\ r[inst.v1] # r[inst.v2]
    THEN as_usize(inst.imm)
    ELSE i + 1

\* The instruction at the pointer (insts[i], 0-based in the source).
current_inst == insts[interp_i + 1]

\* The most instructions a run executes here.
MaxSteps == 12

\* interpret, lines 77-131: one iteration of the loop.
InterpStep ==
    /\ run_status = "running"
    /\ steps < MaxSteps
    /\ IF interp_i = Len(insts)
       THEN /\ run_status' = "halted"
            /\ UNCHANGED <<acc, regs, interp_i, output, steps>>
       ELSE IF interp_i > Len(insts)
       THEN /\ run_status' = "panic_index_out_of_bounds"
            /\ UNCHANGED <<acc, regs, interp_i, output, steps>>
       ELSE LET inst == current_inst
                e == exec(inst, acc, regs)
            IN  IF e.panic
                THEN /\ run_status' = "panic_overflow"
                     /\ UNCHANGED <<acc, regs, interp_i, output, steps>>
                ELSE /\ acc' = e.acc
                     /\ regs' = e.regs
                     /\ interp_i' = next_i(inst, regs, interp_i)
                     /\ output' = IF inst.op = "Print"
                                  THEN Append(output, acc)
                                  ELSE output
                     /\ steps' = steps + 1
                     /\ UNCHANGED run_status
    /\ UNCHANGED insts
    /\ UNCHANGED notInterp

-----------------------------------------------------------------------------
(* assembler.rs: Token, Lexer                                              *)

\* A build with overflow checks (a debug build).
DebugBuild == overflow_checks = TRUE /\ debug_assertions = TRUE

\* Characters are one-character strings; a text is a sequence of them.
Digits == <<"0", "1", "2", "3", "4", "5", "6", "7", "8", "9">>

Letters ==
    {"a", "b", "c", "d", "e", "f", "g", "h", "i", "j", "k", "l", "m",
     "n", "o", "p", "q", "r", "s", "t", "u", "v", "w", "x", "y", "z",
     "A", "B", "C", "D", "E", "F", "G", "H", "I", "J", "K", "L", "M",
     "N", "O", "P", "Q", "R", "S", "T", "U", "V", "W", "X", "Y", "Z"}

\* char::is_digit(10)
is_digit(c) == c \in Range(Digits)

\* char::is_alphabetic, on the ASCII characters
is_alphabetic(c) == c \in Letters

\* char::to_digit(10) of a digit
to_digit(c) == (CHOOSE k \in 1 .. 10 : Digits[k] = c) - 1

\* 10 * v + d on u32: the value modulo 2^32 and whether it overflowed.
u32_mul10_add(v, d) ==
    LET lo == 10 * v.lo + d
        hi == 10 * v.hi + lo \div Limb
    IN  [value |-> U32(hi % Limb, lo % Limb), overflow |-> hi \div Limb # 0]

\* format!("{}", value) of a u32: its decimal digits.
RECURSIVE to_decimal(_)
to_decimal(v) ==
    LET low == (v.hi % 10) * Limb + v.lo
        q == U32(v.hi \div 10, low \div 10)
        d == <<Digits[(low % 10) + 1]>>
    IN  IF q = U32Zero THEN d ELSE to_decimal(q) \o d

\* enum Token: Token(TokenBase) with the character as its tag, Word with
\* its lexeme, Num with its value, and Eof. Unused fields are kept fixed.
TokenTok(c) ==
    [kind |-> "Token", tag |-> c, lexeme |-> <<>>, value |-> U32Zero]

WordTok(lexeme) ==
    [kind |-> "Word", tag |-> "", lexeme |-> lexeme, value |-> U32Zero]

NumTok(v) == [kind |-> "Num", tag |-> "", lexeme |-> <<>>, value |-> v]

EofTok == [kind |-> "Eof", tag |-> "", lexeme |-> <<>>, value |-> U32Zero]

\* Token::to_string
to_string(tok) ==
    CASE tok.kind = "Token" -> <<tok.tag>>
      [] tok.kind = "Word" -> tok.lexeme
      [] tok.kind = "Num" -> to_decimal(tok.value)
      [] tok.kind = "Eof" -> <<"E", "o", "f">>

\* Lexer::new: pos counts the characters read from the file so far.
lexer_new == [pos |-> 0, line_num |-> 1, peek |-> " ", eof |-> FALSE]

\* Lexer::read_char: the next character becomes peek; at the end of the
\* file eof is set and peek stays as it is.
read_char(text, lx) ==
    IF lx.pos < Len(text)
    THEN [lx EXCEPT !.peek = text[lx.pos + 1], !.pos = @ + 1]
    ELSE [lx EXCEPT !.eof = TRUE]

\* Lexer::scan, lines 144-158: skip blanks and count lines; eof tells
\* that the loop returned Token::Eof.
RECURSIVE skip_blanks(_, _)
skip_blanks(text, lx) ==
    IF lx.peek \in {" ", "\t", "\n"}
    THEN LET counted == IF lx.peek = "\n"
                        THEN [lx EXCEPT !.line_num = @ + 1]
                        ELSE lx
             after == read_char(text, counted)
         IN  IF after.eof
             THEN [eof |-> TRUE, lx |-> after]
             ELSE skip_blanks(text, after)
    ELSE [eof |-> FALSE, lx |-> lx]

\* Lexer::scan, lines 162-169: the number loop, entered with a digit in
\* peek. When the file ends on a digit, read_char leaves that digit in
\* peek and the loop never exits: it runs forever, or, in a build with
\* overflow checks and a value that grows, panics on the overflow.
RECURSIVE scan_number(_, _, _, _)
scan_number(text, lx, v, checks) ==
    LET m == u32_mul10_add(v, to_digit(lx.peek))
        after == read_char(text, lx)
    IN  IF m.overflow /\ checks
        THEN [status |-> "panic_overflow", value |-> v, lx |-> lx]
        ELSE IF ~is_digit(after.peek)
        THEN [status |-> "ok", value |-> m.value, lx |-> after]
        ELSE IF after.eof
        THEN [status |-> IF checks /\ m.value # U32Zero
                         THEN "panic_overflow" ELSE "diverge",
              value |-> m.value, lx |-> after]
        ELSE scan_number(text, after, m.value, checks)

\* Lexer::scan, lines 178-185: the word loop, entered with a letter in
\* peek. When the file ends on a letter or digit the loop never exits.
RECURSIVE scan_word(_, _, _)
scan_word(text, lx, w) ==
    LET after == read_char(text, lx)
    IN  IF ~(is_alphabetic(after.peek) \/ is_digit(after.peek))
        THEN [status |-> "ok", lexeme |-> Append(w, lx.peek), lx |-> after]
        ELSE IF after.eof
        THEN [status |-> "diverge", lexeme |-> Append(w, lx.peek), lx |-> after]
        ELSE scan_word(text, after, Append(w, lx.peek))

\* Lexer::scan: the token returned and the lexer after the call; a status
\* other than "ok" tells that the call does not return.
scan(text, lx, checks) ==
    LET blanks == skip_blanks(text, lx)
        lx0 == blanks.lx
        num == IF ~blanks.eof /\ is_digit(lx0.peek)
               THEN scan_number(text, lx0, U32Zero, checks)
               ELSE [status |-> "none", value |-> U32Zero, lx |-> lx0]
        lx1 == num.lx
        word == IF is_alphabetic(lx1.peek)
                THEN scan_word(text, lx1, <<>>)
                ELSE [status |-> "none", lexeme |-> <<>>, lx |-> lx1]
    IN  IF blanks.eof
        THEN [status |-> "ok", tok |-> EofTok, lx |-> lx0]
        ELSE IF num.status \in {"panic_overflow", "diverge"}
        THEN [status |-> num.status, tok |-> EofTok, lx |-> lx1]
        ELSE IF num.status = "ok" /\ lx1.peek # "."
        THEN [status |-> "ok", tok |-> NumTok(num.value), lx |-> lx1]
        ELSE IF word.status = "diverge"
        THEN [status |-> "diverge", tok |-> EofTok, lx |-> word.lx]
        ELSE IF word.status = "ok"
        THEN [status |-> "ok", tok |-> WordTok(word.lexeme), lx |-> word.lx]
        ELSE [status |-> "ok", tok |-> TokenTok(lx1.peek),
              lx |-> [lx1 EXCEPT !.peek = " "]]

-----------------------------------------------------------------------------
(* assembler.rs: handle_reg, handle_imm, Parser                            *)

\* The first status of a sequence that is not "ok": the first step of a
\* statement that does not complete.
RECURSIVE first_failure(_, _)
first_failure(statuses, k) ==
    IF k > Len(statuses) THEN "ok"
    ELSE IF statuses[k] # "ok" THEN statuses[k]
    ELSE first_failure(statuses, k + 1)

\* A conversion that takes the empty string for 0.
RECURSIVE parse_u8_empty_ok(_, _, _)
parse_u8_empty_ok(digits, k, n) ==
    IF k > Len(digits) THEN [ok |-> TRUE, value |-> n]
    ELSE LET m == 10 * n + to_digit(digits[k])
         IN  IF m >= ByteRange THEN [ok |-> FALSE, value |-> 0]
             ELSE parse_u8_empty_ok(digits, k + 1, m)

\* str::parse::<u8> on a string of digits from position k on: the value,
\* or an error for an empty string and for a value above 255.
RECURSIVE parse_u8(_, _, _)
parse_u8(digits, k, n) ==
    IF k > Len(digits) THEN [ok |-> Len(digits) > 0, value |-> n]
    ELSE LET m == 10 * n + to_digit(digits[k])
         IN  IF m >= ByteRange THEN [ok |-> FALSE, value |-> 0]
             ELSE parse_u8(digits, k + 1, m)

\* handle_reg: the register id of a token, or the panic it ends in: the
\* token is no Word, its first character is not `v`, a later character
\* is no digit, or the digits do not parse as a u8.
handle_reg(tok) ==
    LET w == tok.lexeme
        rest == SubSeq(w, 2, Len(w))
    IN  IF tok.kind # "Word"
        THEN [status |-> "panic_not_a_word", value |-> 0]
        ELSE IF w[1] # "v"
        THEN [status |-> "panic_assert_v", value |-> 0]
        ELSE IF \E k \in 1 .. Len(rest) : ~is_digit(rest[k])
        THEN [status |-> "panic_assert_digit", value |-> 0]
        ELSE IF ~parse_u8(rest, 1, 0).ok
        THEN [status |-> "panic_parse_u8", value |-> 0]
        ELSE [status |-> "ok", value |-> parse_u8(rest, 1, 0).value]

\* A conversion that takes every token that is no Num for 0.
handle_imm_zero_default(tok) ==
    IF tok.kind = "Num"
    THEN [status |-> "ok", value |-> tok.value]
    ELSE [status |-> "ok", value |-> U32Zero]

\* handle_imm: the value of a Num token, or a panic.
handle_imm(tok) ==
    IF tok.kind = "Num"
    THEN [status |-> "ok", value |-> tok.value]
    ELSE [status |-> "panic_not_a_num", value |-> U32Zero]

\* Parser::match_ on the result of its scan: a panic when the token's text
\* is not the expected one.
match_(scanned, expect) ==
    IF scanned.status # "ok" THEN scanned.status
    ELSE IF to_string(scanned.tok) # expect THEN "panic_token_mismatch"
    ELSE "ok"

\* A label bound to the index after the next instruction.
label_index_off_by_one(emitted) == U32Of(Len(emitted) + 1)

\* The index a label declaration binds: labels.insert(mnem, ret.len()).
label_index(emitted) == U32Of(Len(emitted))

\* The outcome of one statement: the status, the lexer, the instructions
\* and the labels after it. A failed statement changes nothing else.
stmt_result(status, lx, emitted, table, p) ==
    IF status = "ok"
    THEN [status |-> "parsing", lex |-> lx, ret |-> emitted, labels |-> table]
    ELSE [status |-> status, lex |-> p.lex, ret |-> p.ret, labels |-> p.labels]

\* The results of n successive calls of scan, the first from lexer lx;
\* after a call that does not return, the later entries repeat it.
RECURSIVE scan_many(_, _, _, _)
scan_many(text, lx, checks, n) ==
    IF n = 0 THEN <<>>
    ELSE LET first == scan(text, lx, checks)
         IN  IF first.status = "ok"
             THEN <<first>> \o scan_many(text, first.lx, checks, n - 1)
             ELSE [k \in 1 .. n |-> first]

\* The most tokens one statement takes: the mnemonic, and five for a bne.
StmtTokens == 6

\* `mov v1, v2` (lines 253-258); t holds the scans from the mnemonic on.
parse_mov(t, p) ==
    stmt_result(
        first_failure(<<t[2].status, match_(t[3], <<",">>), t[4].status,
                        handle_reg(t[2].tok).status,
                        handle_reg(t[4].tok).status>>, 1),
        t[4].lx,
        Append(p.ret, Mov(handle_reg(t[2].tok).value,
                          handle_reg(t[4].tok).value)),
        p.labels, p)

\* `movi v, imm` (lines 259-264)
parse_movi(t, p) ==
    stmt_result(
        first_failure(<<t[2].status, match_(t[3], <<",">>), t[4].status,
                        handle_reg(t[2].tok).status,
                        handle_imm(t[4].tok).status>>, 1),
        t[4].lx,
        Append(p.ret, Movi(handle_reg(t[2].tok).value,
                           handle_imm(t[4].tok).value)),
        p.labels, p)

\* `ldai imm` (lines 265-268)
parse_ldai(t, p) ==
    stmt_result(
        first_failure(<<t[2].status, handle_imm(t[2].tok).status>>, 1),
        t[2].lx, Append(p.ret, Ldai(handle_imm(t[2].tok).value)),
        p.labels, p)

\* `lda v` (lines 269-272)
parse_lda(t, p) ==
    stmt_result(
        first_failure(<<t[2].status, handle_reg(t[2].tok).status>>, 1),
        t[2].lx, Append(p.ret, Lda(handle_reg(t[2].tok).value)),
        p.labels, p)

\* `sta v` (lines 273-276)
parse_sta(t, p) ==
    stmt_result(
        first_failure(<<t[2].status, handle_reg(t[2].tok).status>>, 1),
        t[2].lx, Append(p.ret, Sta(handle_reg(t[2].tok).value)),
        p.labels, p)

\* `add v` (lines 277-280)
parse_add(t, p) ==
    stmt_result(
        first_failure(<<t[2].status, handle_reg(t[2].tok).status>>, 1),
        t[2].lx, Append(p.ret, Add(handle_reg(t[2].tok).value)),
        p.labels, p)

\* `dec v` (lines 281-284)
parse_dec(t, p) ==
    stmt_result(
        first_failure(<<t[2].status, handle_reg(t[2].tok).status>>, 1),
        t[2].lx, Append(p.ret, Dec(handle_reg(t[2].tok).value)),
        p.labels, p)

\* `bne v1, v2, label` (lines 285-300): the label is looked up after the
\* five scans and before the registers are converted.
parse_bne(t, p) ==
    LET label == to_string(t[6].tok)
        found == label \in DOMAIN p.labels
    IN  stmt_result(
            first_failure(
                <<t[2].status, match_(t[3], <<",">>), t[4].status,
                  match_(t[5], <<",">>), t[6].status,
                  IF found THEN "ok" ELSE "panic_label_not_found",
                  handle_reg(t[2].tok).status,
                  handle_reg(t[4].tok).status>>, 1),
            t[6].lx,
            Append(p.ret,
                   Bne(handle_reg(t[2].tok).value, handle_reg(t[4].tok).value,
                       IF found THEN p.labels[label] ELSE U32Zero)),
            p.labels, p)

\* A label declaration (lines 303-305): the label is bound and one more
\* token is scanned and dropped.
parse_label(t, p) ==
    stmt_result(t[2].status, t[2].lx, p.ret,
                sm_store(p.labels, to_string(t[1].tok), label_index(p.ret)),
                p)

\* Parser::fetch_insts, lines 247-308: one iteration of the loop, from the
\* parser state p = [lex, ret, labels], with t the scans the iteration
\* makes. The scans of a statement are made in source order, then the
\* operands are converted in argument order.
parse_stmt(t, p) ==
    IF t[1].status # "ok"
    THEN stmt_result(t[1].status, t[1].lx, p.ret, p.labels, p)
    ELSE IF t[1].tok.kind = "Eof"
    THEN [status |-> "returned", lex |-> t[1].lx, ret |-> p.ret,
          labels |-> p.labels]
    ELSE IF to_string(t[1].tok) = <<"m", "o", "v">> THEN parse_mov(t, p)
    ELSE IF to_string(t[1].tok) = <<"m", "o", "v", "i">> THEN parse_movi(t, p)
    ELSE IF to_string(t[1].tok) = <<"l", "d", "a", "i">> THEN parse_ldai(t, p)
    ELSE IF to_string(t[1].tok) = <<"l", "d", "a">> THEN parse_lda(t, p)
    ELSE IF to_string(t[1].tok) = <<"s", "t", "a">> THEN parse_sta(t, p)
    ELSE IF to_string(t[1].tok) = <<"a", "d", "d">> THEN parse_add(t, p)
    ELSE IF to_string(t[1].tok) = <<"d", "e", "c">> THEN parse_dec(t, p)
    ELSE IF to_string(t[1].tok) = <<"b", "n", "e">> THEN parse_bne(t, p)
    ELSE IF to_string(t[1].tok) = <<"p", "r", "i", "n", "t">>
    THEN stmt_result("ok", t[1].lx, Append(p.ret, PrintInst), p.labels, p)
    ELSE IF to_string(t[1].tok)[1] = "L" THEN parse_label(t, p)
    ELSE stmt_result("panic_expected_mnemonic", t[1].lx, p.ret, p.labels, p)

\* The state of the assembler before it runs.
AsmIdle ==
    /\ src = <<>>
    /\ lines = <<>>
    /\ lex = lexer_new
    /\ ret = <<>>
    /\ labels = <<>>
    /\ parse_status = "idle"
    /\ scan_calls = <<>>

\* assembler.rs main, lines 366-368, and fetch_insts, lines 243-244: the
\* lexer is made, the result and the label table are empty.
ParseStart ==
    /\ parse_status = "idle"
    /\ lex' = lexer_new
    /\ ret' = <<>>
    /\ labels' = <<>>
    /\ parse_status' = "parsing"
    /\ UNCHANGED <<src, lines, scan_calls>>
    /\ UNCHANGED notAsm

\* Parser::fetch_insts: one iteration of its loop.
ParseStep ==
    /\ parse_status = "parsing"
    /\ \E t \in {scan_many(src, lex, overflow_checks, StmtTokens)} :
       \E r \in {parse_stmt(t, [lex |-> lex, ret |-> ret, labels |-> labels])} :
           /\ parse_status' = r.status
           /\ lex' = r.lex
           /\ ret' = r.ret
           /\ labels' = r.labels
    /\ UNCHANGED <<src, lines, scan_calls>>
    /\ UNCHANGED notAsm

\* Lexer::new on the source file, for calls of scan on the lexer itself.
ScanStart ==
    /\ parse_status = "idle"
    /\ lex' = lexer_new
    /\ parse_status' = "scanning"
    /\ UNCHANGED <<src, lines, ret, labels, scan_calls>>
    /\ UNCHANGED notAsm

\* One call of Lexer::scan: the token it returns is recorded; the calls
\* end with Token::Eof, or with a call that does not return.
ScanCall ==
    /\ parse_status = "scanning"
    /\ \E r \in {scan(src, lex, overflow_checks)} :
          IF r.status = "ok"
          THEN /\ lex' = r.lx
               /\ scan_calls' = Append(scan_calls, r.tok)
               /\ parse_status' =
                     IF r.tok.kind = "Eof" THEN "scanned" ELSE "scanning"
          ELSE /\ parse_status' = r.status
               /\ UNCHANGED <<lex, scan_calls>>
    /\ UNCHANGED <<src, lines, ret, labels>>
    /\ UNCHANGED notAsm

-----------------------------------------------------------------------------
(* The two programs run one after the other                                *)

\* assembler.rs main, lines 368-370: the parser's result becomes the
\* instructions to write, and the output file is created empty. Until
\* then there is no file for the vm to open.
AsmMain ==
    /\ parse_status = "returned"
    /\ fetch_status = "no_file"
    /\ instructions' = ret
    /\ file' = <<>>
    /\ written' = 0
    /\ fetch_status' = "idle"
    /\ UNCHANGED <<buffer, iter, vm_ret>>
    /\ UNCHANGED notCodec

\* vm.rs main, lines 145-146: interpret is given the result of
\* fetch_insts (the call `interpret(insts)`, which main holds in a
\* comment).
VmMain ==
    /\ fetch_status = "returned"
    /\ run_status = "not_called"
    /\ insts' = vm_ret
    /\ run_status' = "idle"
    /\ UNCHANGED <<acc, regs, interp_i, output, steps>>
    /\ UNCHANGED notInterp

\* vm.rs main, lines 145-148: find_leaders is given the result of
\* fetch_insts.
VmMainFindLeaders ==
    /\ fetch_status = "returned"
    /\ fl_status = "not_called"
    /\ bc' = vm_ret
    /\ fl_status' = "idle"
    /\ UNCHANGED <<leaders, fl_i>>
    /\ UNCHANGED notLeaders

-----------------------------------------------------------------------------
(* The codec's specifications                                              *)

\* The longest instruction sequence that is encoded and decoded.
MaxProgLen == 2

\* The longest raw byte stream handed to the decoder.
MaxFileLen == 6

\* Register ids and immediates the encoded programs are built from: both
\* ends of each range, and an immediate whose four bytes all differ.
CodecRegs == {0, ByteRange - 1}

CodecImms == {U32(0, 5), U32(258, 772), U32Max}

CodecInsts ==
    {Mov(a, b) : a \in CodecRegs, b \in CodecRegs}
    \cup {Movi(a, i) : a \in CodecRegs, i \in CodecImms}
    \cup {Ldai(i) : i \in CodecImms}
    \cup {Lda(a) : a \in CodecRegs} \cup {Sta(a) : a \in CodecRegs}
    \cup {Add(a) : a \in CodecRegs} \cup {Dec(a) : a \in CodecRegs}
    \cup {Bne(a, b, i) : a \in CodecRegs, b \in {0}, i \in CodecImms}
    \cup {PrintInst}

\* Byte values the raw streams are built from: opcodes with 2, 5, 1 and 0
\* operand bytes, and a byte that is no opcode.
RawBytes == {0, 1, 5, 8, 9}

\* The assembler has parsed some program and is about to write it.
InitCodec ==
    /\ instructions \in SeqsUpTo(CodecInsts, MaxProgLen)
    /\ file = <<>>
    /\ written = 0
    /\ buffer = <<>>
    /\ iter = 1
    /\ vm_ret = <<>>
    /\ fetch_status = "idle"
    /\ LeadersIdle
    /\ LayoutIdle
    /\ DfgIdle
    /\ InterpIdle
    /\ DebugBuild
    /\ AsmIdle

NextCodec == WriteInst \/ FetchStart \/ FetchStep

\* Encode a program with the assembler, decode the file with the vm.
SpecCodec == InitCodec /\ [][NextCodec]_vars

\* The vm is started on an arbitrary file.
InitDecode ==
    /\ instructions = <<>>
    /\ file \in SeqsUpTo(RawBytes, MaxFileLen)
    /\ written = 0
    /\ buffer = <<>>
    /\ iter = 1
    /\ vm_ret = <<>>
    /\ fetch_status = "idle"
    /\ LeadersIdle
    /\ LayoutIdle
    /\ DfgIdle
    /\ InterpIdle
    /\ DebugBuild
    /\ AsmIdle

NextDecode == FetchStart \/ FetchStep

\* Decode an arbitrary byte stream with the vm.
SpecDecode == InitDecode /\ [][NextDecode]_vars

-----------------------------------------------------------------------------
(* Claims about the codec                                                  *)

\* C1 (round-trip): decoding the bytes that write_inst produced for an
\* instruction sequence never fails, yields at every step a prefix of that
\* sequence, and on return yields exactly the sequence, in order and of
\* the same length.
C1_RoundTrip ==
    /\ fetch_status \notin FetchPanics
    /\ fetch_status = "loop" =>
          /\ Len(vm_ret) <= Len(instructions)
          /\ vm_ret = SubSeq(instructions, 1, Len(vm_ret))
    /\ fetch_status = "returned" => vm_ret = instructions

\* C1 witness: a two-instruction program holding a branch whose target has
\* four different bytes has been encoded and decoded.
C1_Witness ==
    /\ fetch_status = "returned"
    /\ Len(instructions) >= 2
    /\ \E k \in 1 .. Len(instructions) :
          instructions[k] = Bne(ByteRange - 1, 0, U32(258, 772))
    /\ Len(file) >= 8

\* C8 (decode errors): decoding never ends in a panic: a stream that ends
\* inside an instruction and a stream with an opcode byte outside 0..8 are
\* reported as error values, not by aborting the process.
C8_DecodeErrorIsValue == fetch_status \notin FetchPanics

-----------------------------------------------------------------------------
(* The leader analysis: specification and claims                           *)

\* The longest program handed to find_leaders; branch targets range over
\* 0 .. MaxLeaderProg, so they include indices past the end of the program.
MaxLeaderProg == 3

LeaderInsts ==
    {PrintInst, Dec(0)} \cup {Bne(0, 1, U32Of(t)) : t \in 0 .. MaxLeaderProg}

InitLeaders ==
    /\ bc \in SeqsUpTo(LeaderInsts, MaxLeaderProg)
    /\ leaders = <<>>
    /\ fl_i = 0
    /\ fl_status = "idle"
    /\ CodecIdle
    /\ LayoutIdle
    /\ DfgIdle
    /\ InterpIdle
    /\ DebugBuild
    /\ AsmIdle

NextLeaders == FindLeadersStart \/ FindLeadersStep

\* find_leaders run on an arbitrary program.
SpecLeaders == InitLeaders /\ [][NextLeaders]_vars

\* C2 (leader completeness): for a non-empty program the returned leaders
\* contain index 0 and, for every branch at every index i (i = 0 included),
\* the branch's target and, when i + 1 is an index of the program, i + 1.
C2_LeaderCompleteness ==
    (fl_status = "returned" /\ bc # <<>>) =>
        /\ 0 \in Range(leaders)
        /\ \A i \in 0 .. Len(bc) - 1 :
              is_branch(bc[i + 1]) =>
                  /\ as_usize(bc[i + 1].imm) \in Range(leaders)
                  /\ (i + 1 < Len(bc) => (i + 1) \in Range(leaders))

\* C3 (leader set shape): the returned leaders are in strictly ascending
\* order, so no index occurs twice.
C3_LeadersAscending ==
    fl_status = "returned" =>
        \A k \in 1 .. Len(leaders) - 1 : leaders[k] < leaders[k + 1]

-----------------------------------------------------------------------------
(* The Layout: specification and claims                                    *)

\* Block ids are 0 .. MaxBlockId and instruction ids 0 .. MaxInstId.
MaxBlockId == 2

MaxInstId == 2

BlockIds == 0 .. MaxBlockId

InstIds == 0 .. MaxInstId

InitLayout ==
    /\ layout = layout_new
    /\ appended_blocks = <<>>
    /\ appended_to = <<>>
    /\ layout_status = "ok"
    /\ cleared = FALSE
    /\ CodecIdle
    /\ LeadersIdle
    /\ DfgIdle
    /\ InterpIdle
    /\ DebugBuild
    /\ AsmIdle

NextLayout ==
    \/ \E block \in BlockIds : AppendBlock(block)
    \/ \E inst \in InstIds, block \in BlockIds : AppendInst(inst, block)
    \/ LayoutClear

\* Any sequence of accepted append_block / append_inst calls and clears.
SpecLayout == InitLayout /\ [][NextLayout]_vars

\* The blocks that `for block in &layout` visits; more blocks than there
\* are ids means the iteration runs in a cycle.
blocks_iter == blocks_from(layout, layout.first_block, MaxBlockId + 2)

\* C4 (layout consistency): every appended instruction's inst_block is the
\* block it was appended to, and iterating the blocks visits exactly the
\* appended blocks, each once, in the order appended, and then ends.
C4_LayoutConsistency ==
    /\ \A inst \in DOMAIN appended_to :
          inst_block(layout, inst) = Some(appended_to[inst])
    /\ blocks_iter.done
    /\ blocks_iter.items = appended_blocks
    /\ \A j, k \in 1 .. Len(blocks_iter.items) :
          blocks_iter.items[j] = blocks_iter.items[k] => j = k

\* C4 witness: three blocks were appended in the order 2, 0, 1, and
\* instructions were appended to two different blocks.
C4_Witness ==
    /\ appended_blocks = <<2, 0, 1>>
    /\ 0 \in DOMAIN appended_to /\ 1 \in DOMAIN appended_to
    /\ appended_to[0] = 1 /\ appended_to[1] = 2

\* The instructions reached from `next` on along the next links, within
\* `fuel` steps; done tells whether the chain reached None.
RECURSIVE insts_from(_, _, _)
insts_from(l, next, fuel) ==
    IF next = None THEN [items |-> <<>>, done |-> TRUE]
    ELSE IF fuel = 0 THEN [items |-> <<>>, done |-> FALSE]
    ELSE LET rest == insts_from(l, inst_node(l, unwrap(next)).next, fuel - 1)
         IN  [items |-> <<unwrap(next)>> \o rest.items, done |-> rest.done]

\* The instruction chain of a block, from its first_inst.
block_chain(block) ==
    insts_from(layout, block_node(layout, block).first_inst, MaxInstId + 2)

\* The last element of a non-empty sequence.
Last(s) == s[Len(s)]

\* Every inserted instruction is in the chain of its block, once, and in
\* the chain of no other block; every chain holds only its own block's
\* instructions.
InstsInOneBlock ==
    /\ \A inst \in InstIds :
          inst_block(layout, inst) # None =>
              \A block \in BlockIds :
                  Cardinality({k \in 1 .. Len(block_chain(block).items) :
                                  block_chain(block).items[k] = inst})
                  = (IF Some(block) = inst_block(layout, inst) THEN 1 ELSE 0)
    /\ \A block \in BlockIds :
          \A k \in 1 .. Len(block_chain(block).items) :
              inst_block(layout, block_chain(block).items[k]) = Some(block)

\* first_inst and last_inst of every block are both None, or the head and
\* the tail of the block's chain.
BlockEndsConsistent ==
    \A block \in BlockIds :
        LET node == block_node(layout, block)
            chain == block_chain(block)
        IN  /\ chain.done
            /\ (node.first_inst = None) <=> (node.last_inst = None)
            /\ node.first_inst # None =>
                  /\ inst_node(layout, unwrap(node.first_inst)).prev = None
                  /\ inst_node(layout, unwrap(node.last_inst)).next = None
                  /\ Last(chain.items) = unwrap(node.last_inst)

\* x.next = y iff y.prev = x, for instructions and for blocks.
LinksMirrored ==
    /\ \A x, y \in InstIds :
          (inst_node(layout, x).next = Some(y))
              <=> (inst_node(layout, y).prev = Some(x))
    /\ \A x, y \in BlockIds :
          (block_node(layout, x).next = Some(y))
              <=> (block_node(layout, y).prev = Some(x))

\* first_block and last_block are both None and no block is inserted, or
\* they are the head and the tail of the block chain.
LayoutEndsConsistent ==
    /\ (layout.first_block = None) <=> (layout.last_block = None)
    /\ (layout.first_block = None)
          <=> (\A block \in BlockIds : ~is_block_inserted(layout, block))
    /\ layout.first_block # None =>
          /\ block_node(layout, unwrap(layout.first_block)).prev = None
          /\ block_node(layout, unwrap(layout.last_block)).next = None
          /\ blocks_iter.done
          /\ Last(blocks_iter.items) = unwrap(layout.last_block)

\* C5 (layout link invariant): every inserted instruction belongs to
\* exactly one block; each block's first_inst / last_inst are both None or
\* the ends of its instruction chain; first_block / last_block are the
\* ends of the block chain; next and prev links mirror each other.
C5_LayoutLinks ==
    /\ InstsInOneBlock
    /\ BlockEndsConsistent
    /\ LinksMirrored
    /\ LayoutEndsConsistent

\* C5 witness: two blocks are linked and one of them holds a chain of two
\* instructions while another instruction lies in the other block.
C5_Witness ==
    /\ Len(appended_blocks) >= 2
    /\ \E block \in BlockIds : Len(block_chain(block).items) = 2
    /\ DOMAIN appended_to = InstIds
    /\ \E i, j \in InstIds : appended_to[i] # appended_to[j]

\* The block ids that presence is asked of: those that are appended and
\* one that never is.
QueriedBlocks == 0 .. MaxBlockId + 1

\* C14 (block presence): is_block_inserted(b) is true exactly for the
\* blocks appended since the layout was created or last cleared, and false
\* for every other block id, whatever else was appended or asked.
C14_BlockPresence ==
    \A b \in QueriedBlocks :
        is_block_inserted(layout, b) <=> b \in Range(appended_blocks)

\* The instruction ids asked about: the ids used and one never appended.
QueriedInsts == 0 .. MaxInstId + 1

\* The layout answers every query as a new layout does.
LooksNew ==
    /\ \A b \in QueriedBlocks : ~is_block_inserted(layout, b)
    /\ \A inst \in QueriedInsts : inst_block(layout, inst) = None
    /\ blocks_iter = [items |-> <<>>, done |-> TRUE]

\* Every block can be appended, and every instruction that is in no
\* block can be appended to every block that is in the layout.
IdsCanBeAppended ==
    /\ \A b \in BlockIds \ Range(appended_blocks) :
          append_block_accepted(layout, b)
    /\ \A inst \in InstIds \ DOMAIN appended_to :
          \A b \in Range(appended_blocks) :
              append_inst_accepted(layout, inst, b)

\* C22 (clear and reuse): a layout that was cleared, with nothing
\* appended since, answers is_block_inserted, inst_block and blocks() as a
\* new layout does; block and instruction ids can be appended to it
\* again, and what is appended after the clear is recorded as in a new
\* layout: every instruction in its block, blocks() the blocks appended
\* since the clear, each once, in order.
C22_ClearAndReuse ==
    cleared =>
        /\ (appended_blocks = <<>> /\ appended_to = <<>>) => LooksNew
        /\ IdsCanBeAppended
        /\ \A inst \in DOMAIN appended_to :
              inst_block(layout, inst) = Some(appended_to[inst])
        /\ \A b \in QueriedBlocks :
              is_block_inserted(layout, b) <=> b \in Range(appended_blocks)
        /\ blocks_iter = [items |-> appended_blocks, done |-> TRUE]

\* C22 witness: after a clear, blocks 0 and 1 and instruction 0 in block
\* 1 are in the layout again.
C22_Witness ==
    /\ cleared
    /\ appended_blocks = <<0, 1>>
    /\ DOMAIN appended_to = {0}
    /\ appended_to[0] = 1

\* C22 witness of the cleared layout itself.
C22_WitnessCleared ==
    /\ cleared
    /\ appended_blocks = <<>>
    /\ appended_to = <<>>

\* C14 witness: the layout holds the single block 1 with one instruction;
\* block 1 is present, and block 0 and the never appended id are not.
C14_Witness ==
    /\ appended_blocks = <<1>>
    /\ DOMAIN appended_to = {0}
    /\ is_block_inserted(layout, 1)
    /\ ~is_block_inserted(layout, 0)
    /\ ~is_block_inserted(layout, MaxBlockId + 1)

InitLayoutCalls ==
    /\ layout = layout_new
    /\ appended_blocks = <<>>
    /\ appended_to = <<>>
    /\ layout_status = "ok"
    /\ cleared = FALSE
    /\ debug_assertions \in BOOLEAN
    /\ overflow_checks = debug_assertions
    /\ CodecIdle
    /\ LeadersIdle
    /\ DfgIdle
    /\ InterpIdle
    /\ AsmIdle

NextLayoutCalls ==
    \/ \E block \in BlockIds : AppendBlockCall(block)
    \/ \E inst \in InstIds, block \in BlockIds : AppendInstCall(inst, block)
    \/ LayoutClear

\* Any sequence of append_block / append_inst calls and clears, in either
\* build.
SpecLayoutCalls == InitLayoutCalls /\ [][NextLayoutCalls]_vars

\* The blocks whose instruction chain holds inst.
owners(inst) ==
    {b \in BlockIds :
        inst \in Range(insts_from(layout, block_node(layout, b).first_inst,
                                  MaxInstId + 2).items)}

\* C15 (misuse is rejected): no call that appends a block already in the
\* layout, an instruction already in a block, or an instruction to a block
\* not in the layout is ever applied: no block is appended twice, the block
\* chain ends without visiting a block twice, every instruction was
\* appended to a block of the layout, and no instruction is in the chains
\* of two blocks.
C15_MisuseRejected ==
    /\ \A j, k \in 1 .. Len(appended_blocks) :
          appended_blocks[j] = appended_blocks[k] => j = k
    /\ blocks_iter.done
    /\ \A j, k \in 1 .. Len(blocks_iter.items) :
          blocks_iter.items[j] = blocks_iter.items[k] => j = k
    /\ \A inst \in DOMAIN appended_to :
          appended_to[inst] \in Range(appended_blocks)
    /\ \A inst \in InstIds : Cardinality(owners(inst)) <= 1

-----------------------------------------------------------------------------
(* The DataFlowGraph: specification and claims                             *)

\* The number of make_inst calls; operand ids range over 0 .. MaxDfgInsts,
\* so they include 0 (never an id) and ids not made yet.
MaxDfgInsts == 3

DfgIds == 0 .. MaxDfgInsts

DfgData ==
    {Constant("Constant", 0)}
    \cup {Binary("Add", <<a, b>>) : a \in DfgIds, b \in DfgIds}
    \cup {BneData("Bne", <<1, 2>>, <<0, 1>>), BneData("Bne", <<2, 2>>, <<0, 1>>)}
    \cup {Phi("Phi", <<>>), Phi("Phi", <<1>>), Phi("Phi", <<3, 1, 3>>)}

\* A call dfg.make_inst(data).
MakeInst(data) ==
    /\ Len(made) < MaxDfgInsts
    /\ made' = Append(made, next_inst_id(dfg))
    /\ dfg' = make_inst(dfg, data)
    /\ UNCHANGED notDfg

InitDfg ==
    /\ dfg = dfg_new
    /\ made = <<>>
    /\ CodecIdle
    /\ LeadersIdle
    /\ LayoutIdle
    /\ InterpIdle
    /\ DebugBuild
    /\ AsmIdle

NextDfg == \E data \in DfgData : MakeInst(data)

\* Any sequence of make_inst calls on a new graph.
SpecDfg == InitDfg /\ [][NextDfg]_vars

\* The operands recorded for instruction a: the elements of its inputs,
\* none when a is no instruction of the graph or is a constant.
operands_of(a) ==
    IF a \in DOMAIN dfg.insts /\ inputs(dfg.insts[a]) # None
    THEN Range(unwrap(inputs(dfg.insts[a])))
    ELSE {}

\* C6 (def-use consistency): A is in users[B] iff B is among the operands
\* recorded for A; an instruction without operands is in no users set.
C6_DefUse ==
    \A a \in DfgIds, b \in DfgIds \cup DOMAIN dfg.users :
        (a \in sm_index(dfg.users, b, {})) <=> (b \in operands_of(a))

\* C6 witness: three instructions were made; one has the same operand
\* twice, one uses an id that is made only later, and one is a constant.
C6_Witness ==
    /\ Len(made) = 3
    /\ dfg.insts[1] = Binary("Add", <<2, 2>>)
    /\ dfg.insts[2] = Constant("Constant", 0)
    /\ dfg.insts[3] = Phi("Phi", <<3, 1, 3>>)
    /\ sm_index(dfg.users, 2, {}) = {1}
    /\ sm_index(dfg.users, 3, {}) = {3}

\* The ids returned so far are 1, 2, 3, ... in call order, and they are
\* the ids that have data.
IdsInCallOrder ==
    /\ \A k \in 1 .. Len(made) : made[k] = k
    /\ DOMAIN dfg.insts = Range(made)

\* A call returns an id that was not returned before, stores under it the
\* data it was given, and leaves the data of every earlier id as it was.
FreshIdStored ==
    made' # made =>
        /\ Len(made') = Len(made) + 1
        /\ made'[Len(made')] \notin Range(made)
        /\ \E data \in DfgData :
              /\ dfg' = make_inst(dfg, data)
              /\ dfg'.insts[made'[Len(made')]] = data
        /\ \A j \in DOMAIN dfg.insts : dfg'.insts[j] = dfg.insts[j]

\* C13 (fresh ids): on a new graph the k-th make_inst returns k; every
\* returned id differs from all ids returned before, holds the data of its
\* call, and no call overwrites the data of an earlier instruction.
C13_FreshIds == [](IdsInCallOrder) /\ [][FreshIdStored]_vars

\* C13 witness: two constants and then their sum were made (the shape of
\* the repository's data_flow_graph test), with ids 1, 2, 3.
C13_Witness ==
    /\ made = <<1, 2, 3>>
    /\ dfg.insts[1] = Constant("Constant", 0)
    /\ dfg.insts[2] = Constant("Constant", 0)
    /\ dfg.insts[3] = Binary("Add", <<1, 2>>)

-----------------------------------------------------------------------------
(* The interpreter: specification and claims                               *)

\* The longest program interpreted.
MaxInterpProg == 3

InterpInsts ==
    {Mov(1, 0), Movi(0, U32Of(2)), Movi(NumRegs - 1, U32Max),
     Ldai(U32Of(5)), Lda(0), Sta(1), Add(0), Dec(0), PrintInst,
     Bne(0, 1, U32Of(0)), Bne(0, 1, U32Of(1)), Bne(0, 1, U32(1, 0))}

InitInterp ==
    /\ insts \in SeqsUpTo(InterpInsts, MaxInterpProg)
    /\ overflow_checks \in BOOLEAN
    /\ debug_assertions = overflow_checks
    /\ acc = U64Zero
    /\ regs = [r \in 0 .. NumRegs - 1 |-> U64Zero]
    /\ interp_i = 0
    /\ output = <<>>
    /\ run_status = "idle"
    /\ steps = 0
    /\ CodecIdle
    /\ LeadersIdle
    /\ LayoutIdle
    /\ DfgIdle
    /\ AsmIdle

NextInterp == InterpStart \/ InterpStep

\* A run of the interpreter on an arbitrary program, in either build.
SpecInterp == InitInterp /\ [][NextInterp]_vars

\* The run is about to execute Dec(v).
AtDec ==
    /\ run_status = "running"
    /\ steps < MaxSteps
    /\ interp_i < Len(insts)
    /\ current_inst.op = "Dec"

\* C9 (decrement at zero): executing Decrement on a register that holds 0
\* stops the run with an error and leaves the register as it is (it never
\* becomes 2^64 - 1); on a register that holds n > 0 it stores n - 1.
C9_DecrementZeroIsFatal ==
    [][AtDec =>
         IF regs[current_inst.v1] = U64Zero
         THEN /\ run_status' \in InterpPanics
              /\ regs' = regs
         ELSE /\ run_status' = "running"
              /\ regs'[current_inst.v1] = u64_sub_one(regs[current_inst.v1]).value
              /\ ~u64_sub_one(regs[current_inst.v1]).overflow]_vars

\* The step executes the instruction at the pointer to its end.
Executes ==
    /\ run_status = "running"
    /\ steps' = steps + 1

\* Where the pointer stands in every state: at 0 before the first
\* instruction, and at the program's length when the run has halted.
PointerStates ==
    /\ (run_status = "running" /\ steps = 0) => interp_i = 0
    /\ run_status = "halted" => interp_i = Len(insts)

\* How a step moves the pointer: an executed instruction moves it by one,
\* except a bne on two different registers, which moves it to its target;
\* at the program's length the run halts, and only there; after the halt
\* nothing is executed.
PointerSteps ==
    /\ Executes =>
          /\ interp_i < Len(insts)
          /\ interp_i' =
                IF /\ current_inst.op = "Bne"
                   /\ regs[current_inst.v1] # regs[current_inst.v2]
                THEN current_inst.imm.hi * Limb + current_inst.imm.lo
                ELSE interp_i + 1
    /\ (run_status = "running" /\ run_status' = "halted") =>
          /\ interp_i = Len(insts)
          /\ UNCHANGED <<acc, regs, interp_i, output, steps>>
    /\ (run_status = "running" /\ interp_i = Len(insts)) =>
          run_status' = "halted"
    /\ run_status = "halted" => UNCHANGED interpVars

\* C18 (control flow): the pointer starts at 0; every instruction but bne
\* advances it by one; bne(a, b, t) sets it to t when regs[a] # regs[b]
\* and advances it by one otherwise; the run halts exactly when the
\* pointer is the program's length, and executes nothing afterwards.
C18_ControlFlow == [](PointerStates) /\ [][PointerSteps]_vars

\* C18 witness: `movi v0, 2` / `dec v0` / `bne v0, v1, 1` has halted at
\* pointer 3 after five instructions, one branch taken and one not.
C18_Witness ==
    /\ insts = <<Movi(0, U32Of(2)), Dec(0), Bne(0, 1, U32Of(1))>>
    /\ run_status = "halted"
    /\ interp_i = 3
    /\ steps = 5

\* The registers other than d are as they were.
OnlyRegister(d) == \A r \in DOMAIN regs \ {d} : regs'[r] = regs[r]

\* What an executed instruction writes, by its form.
FrameEffects ==
    Executes =>
        LET inst == current_inst
        IN  /\ inst.op = "Mov" =>
                  /\ regs'[inst.v1] = regs[inst.v2]
                  /\ OnlyRegister(inst.v1)
                  /\ UNCHANGED <<acc, output>>
            /\ inst.op = "Movi" =>
                  /\ regs'[inst.v1] = <<inst.imm.lo, inst.imm.hi, 0, 0>>
                  /\ OnlyRegister(inst.v1)
                  /\ UNCHANGED <<acc, output>>
            /\ inst.op = "Ldai" =>
                  /\ acc' = <<inst.imm.lo, inst.imm.hi, 0, 0>>
                  /\ UNCHANGED <<regs, output>>
            /\ inst.op = "Lda" =>
                  /\ acc' = regs[inst.v1]
                  /\ UNCHANGED <<regs, output>>
            /\ inst.op = "Sta" =>
                  /\ regs'[inst.v1] = acc
                  /\ OnlyRegister(inst.v1)
                  /\ UNCHANGED <<acc, output>>
            /\ inst.op = "Add" =>
                  /\ acc' = u64_add(acc, regs[inst.v1]).value
                  /\ UNCHANGED <<regs, output>>
            /\ inst.op = "Dec" =>
                  /\ OnlyRegister(inst.v1)
                  /\ UNCHANGED <<acc, output>>
            /\ inst.op = "Bne" => UNCHANGED <<acc, regs, output>>
            /\ inst.op = "Print" =>
                  /\ output' = Append(output, acc)
                  /\ UNCHANGED <<acc, regs>>

\* The register file has its 256 slots.
RegisterFile == DOMAIN regs = 0 .. 255

\* C19 (frame effects): mov and movi and sta write only their destination
\* register (the source register, the zero-extended immediate, the
\* accumulator); ldai, lda and add write only the accumulator (the
\* immediate, the register, the sum); dec writes only its register; bne
\* and print write neither, and print appends the accumulator to the
\* output; the register file always has 256 slots.
C19_FrameEffects == [](RegisterFile) /\ [][FrameEffects]_vars

\* C19 witness: `ldai 5` / `sta v1` / `print` has run to its end: v1 and
\* the accumulator hold 5, and 5 was printed.
C19_Witness ==
    /\ insts = <<Ldai(U32Of(5)), Sta(1), PrintInst>>
    /\ run_status = "halted"
    /\ regs[1] = <<5, 0, 0, 0>>
    /\ acc = <<5, 0, 0, 0>>
    /\ output = <<<<5, 0, 0, 0>>>>

-----------------------------------------------------------------------------
(* The assembler: specification and claims                                 *)

\* The most statements a source file holds.
MaxLines == 4

\* A statement of a source file: a label declaration, a branch to a
\* label, or another instruction.
LabelLine(name) == [kind |-> "label", name |-> name, inst |-> PrintInst]

BneLine(v1, v2, name) ==
    [kind |-> "bne", name |-> name, inst |-> Bne(v1, v2, U32Zero)]

InstLine(inst) == [kind |-> "inst", name |-> <<>>, inst |-> inst]

\* The text of a register operand and of an instruction's mnemonic.
reg_text(v) == <<"v">> \o to_decimal(U32Of(v))

mnemonic_text(op) ==
    CASE op = "Mov" -> <<"m", "o", "v">>
      [] op = "Movi" -> <<"m", "o", "v", "i">>
      [] op = "Ldai" -> <<"l", "d", "a", "i">>
      [] op = "Lda" -> <<"l", "d", "a">>
      [] op = "Sta" -> <<"s", "t", "a">>
      [] op = "Add" -> <<"a", "d", "d">>
      [] op = "Dec" -> <<"d", "e", "c">>
      [] op = "Bne" -> <<"b", "n", "e">>
      [] op = "Print" -> <<"p", "r", "i", "n", "t">>

\* The text of a statement, in the grammar of the assembler's source
\* (`L1:`, `mov v1, v0`, `movi v0, 3`, `bne v0, v1, L1`, `print`, ...).
line_text(l) ==
    LET op == l.inst.op
        sep == <<",", " ">>
    IN  IF l.kind = "label" THEN l.name \o <<":">>
        ELSE mnemonic_text(op) \o
             ( CASE l.kind = "bne" ->
                        <<" ">> \o reg_text(l.inst.v1) \o sep \o
                        reg_text(l.inst.v2) \o sep \o l.name
                 [] op = "Mov" ->
                        <<" ">> \o reg_text(l.inst.v1) \o sep \o
                        reg_text(l.inst.v2)
                 [] op = "Movi" ->
                        <<" ">> \o reg_text(l.inst.v1) \o sep \o
                        to_decimal(l.inst.imm)
                 [] op = "Ldai" -> <<" ">> \o to_decimal(l.inst.imm)
                 [] op \in {"Lda", "Sta", "Add", "Dec"} ->
                        <<" ">> \o reg_text(l.inst.v1)
                 [] op = "Print" -> <<>> )

\* The text of a source file: each statement on a line of its own.
RECURSIVE source_text(_, _)
source_text(ls, k) ==
    IF k > Len(ls) THEN <<>>
    ELSE line_text(ls[k]) \o <<"\n">> \o source_text(ls, k + 1)

L1 == <<"L", "1">>

L2 == <<"L", "2">>

AsmLines ==
    {LabelLine(L1), LabelLine(L2),
     BneLine(0, 1, L1), BneLine(1, 0, L2),
     InstLine(Dec(0)), InstLine(PrintInst), InstLine(Movi(0, U32Of(3)))}

InitAsm ==
    /\ lines \in SeqsUpTo(AsmLines, MaxLines)
    /\ src = source_text(lines, 1)
    /\ overflow_checks \in BOOLEAN
    /\ debug_assertions = overflow_checks
    /\ lex = lexer_new
    /\ ret = <<>>
    /\ labels = <<>>
    /\ parse_status = "idle"
    /\ scan_calls = <<>>
    /\ CodecIdle
    /\ LeadersIdle
    /\ LayoutIdle
    /\ DfgIdle
    /\ InterpIdle

NextAsm == ParseStart \/ ParseStep

\* The assembler's parser run on a source file, in either build.
SpecAsm == InitAsm /\ [][NextAsm]_vars

\* The number of instruction statements among the first k statements.
insts_before(ls, k) ==
    Cardinality({j \in 1 .. k : j <= Len(ls) /\ ls[j].kind # "label"})

\* The last declaration of `name` before statement k, 0 when there is none.
last_decl(ls, k, name) ==
    LET decls == {j \in 1 .. k - 1 : ls[j].kind = "label" /\ ls[j].name = name}
    IN  IF decls = {} THEN 0
        ELSE CHOOSE j \in decls : \A other \in decls : other <= j

\* The first branch whose label has no declaration before it, 0 when
\* every branch has one.
first_undefined(ls) ==
    LET bad == {k \in 1 .. Len(ls) :
                   ls[k].kind = "bne" /\ last_decl(ls, k, ls[k].name) = 0}
    IN  IF bad = {} THEN 0
        ELSE CHOOSE k \in bad : \A other \in bad : k <= other

\* The instruction statement k stands for: a branch's target is the number
\* of instructions that precede the last declaration of its label.
expected_inst(ls, k) ==
    IF ls[k].kind = "bne"
    THEN Bne(ls[k].inst.v1, ls[k].inst.v2,
             U32Of(insts_before(ls, last_decl(ls, k, ls[k].name))))
    ELSE ls[k].inst

\* The instructions the first n statements stand for.
RECURSIVE expected_ret(_, _)
expected_ret(ls, n) ==
    IF n = 0 THEN <<>>
    ELSE IF ls[n].kind = "label" THEN expected_ret(ls, n - 1)
    ELSE Append(expected_ret(ls, n - 1), expected_inst(ls, n))

\* C7 (label scoping): a bne whose label has no declaration before it in
\* the source ends the parse with the label-not-found error, with exactly
\* the instructions of the statements before it emitted; otherwise every
\* bne is emitted with the index its label was bound to, the number of
\* instructions emitted when the label's last declaration was parsed.
C7_LabelScoping ==
    LET u == first_undefined(lines)
        good == IF u = 0 THEN Len(lines) ELSE u - 1
        want == expected_ret(lines, good)
    IN  /\ parse_status \in
              {"idle", "parsing", "returned", "panic_label_not_found"}
        /\ parse_status = "parsing" =>
              /\ Len(ret) <= Len(want)
              /\ ret = SubSeq(want, 1, Len(ret))
        /\ parse_status = "returned" => (u = 0 /\ ret = want)
        /\ parse_status = "panic_label_not_found" => (u # 0 /\ ret = want)

\* C7 witness: L1 is declared twice with an instruction in between, and
\* the branch to it was emitted with the index of the second declaration.
C7_Witness ==
    /\ parse_status = "returned"
    /\ lines = <<LabelLine(L1), InstLine(Dec(0)), LabelLine(L1),
                 BneLine(0, 1, L1)>>
    /\ ret = <<Dec(0), Bne(0, 1, U32Of(1))>>

\* C7 witness of the error case: a branch to L2 before any declaration of
\* L2 ended the parse after one emitted instruction.
C7_WitnessUndefined ==
    /\ parse_status = "panic_label_not_found"
    /\ lines = <<InstLine(PrintInst), BneLine(1, 0, L2), LabelLine(L2)>>
    /\ ret = <<PrintInst>>

-----------------------------------------------------------------------------
(* Assembling, decoding and interpreting a source: specification           *)

\* The most iterations of a loop in a source.
MaxLoopCount == 3

\* The bodies of the loops: each holds `dec v0` once and nothing else
\* that writes v0.
LoopBodies ==
    {<<Dec(0)>>, <<PrintInst, Dec(0)>>, <<Dec(0), Add(0)>>,
     <<Lda(0), Dec(0), PrintInst>>}

\* What follows the loop's bne.
LoopTails == {<<>>, <<PrintInst>>}

RECURSIVE inst_lines(_, _)
inst_lines(is, k) ==
    IF k > Len(is) THEN <<>>
    ELSE <<InstLine(is[k])>> \o inst_lines(is, k + 1)

\* `movi v0, n`, `L1:`, the body, `bne v0, v1, L1`, the tail.
loop_source(n, body, tail) ==
    <<InstLine(Movi(0, U32Of(n))), LabelLine(L1)>> \o inst_lines(body, 1) \o
    <<BneLine(0, 1, L1)>> \o inst_lines(tail, 1)

\* The instructions a run of loop_source(n, body, tail) executes when the
\* body runs n times.
loop_steps(n, body, tail) == 1 + n * (Len(body) + 1) + Len(tail)

\* The loops whose run fits in MaxSteps.
LoopSources ==
    {loop_source(n, body, tail) :
        n \in 1 .. MaxLoopCount,
        body \in {b \in LoopBodies :
                     loop_steps(MaxLoopCount, b, <<PrintInst>>) < MaxSteps},
        tail \in LoopTails}

\* `movi v0, 5` / `lda v0` / `print`.
PrintFiveSource ==
    <<InstLine(Movi(0, U32Of(5))), InstLine(Lda(0)), InstLine(PrintInst)>>

\* A source with every instruction form, the largest register and
\* immediates with four different bytes.
AllFormsSource ==
    <<InstLine(Movi(NumRegs - 1, U32(258, 772))), InstLine(Mov(1, NumRegs - 1)),
      InstLine(Ldai(U32Max)), LabelLine(L1), InstLine(Sta(2)),
      InstLine(Lda(1)), InstLine(Add(2)), InstLine(Movi(3, U32Of(1))),
      InstLine(Dec(3)), BneLine(3, 0, L1), InstLine(PrintInst)>>

PipelineSources == LoopSources \cup {PrintFiveSource, AllFormsSource}

InitPipeline ==
    /\ lines \in PipelineSources
    /\ src = source_text(lines, 1)
    /\ overflow_checks \in BOOLEAN
    /\ debug_assertions = overflow_checks
    /\ lex = lexer_new
    /\ ret = <<>>
    /\ labels = <<>>
    /\ parse_status = "idle"
    /\ scan_calls = <<>>
    /\ instructions = <<>>
    /\ file = <<>>
    /\ written = 0
    /\ buffer = <<>>
    /\ iter = 1
    /\ vm_ret = <<>>
    /\ fetch_status = "no_file"
    /\ insts = <<>>
    /\ acc = U64Zero
    /\ regs = [r \in 0 .. NumRegs - 1 |-> U64Zero]
    /\ interp_i = 0
    /\ output = <<>>
    /\ run_status = "not_called"
    /\ steps = 0
    /\ LeadersIdle
    /\ LayoutIdle
    /\ DfgIdle

NextPipeline ==
    \/ ParseStart
    \/ ParseStep
    \/ AsmMain
    \/ WriteInst
    \/ FetchStart
    \/ FetchStep
    \/ VmMain
    \/ InterpStart
    \/ InterpStep

\* The assembler run on a source, then the vm on the file it wrote. The
\* loop of interpret, once entered, runs on until it breaks or panics.
SpecPipeline ==
    InitPipeline /\ [][NextPipeline]_vars /\ WF_vars(InterpStep)

\* The parameters of a loop source.
loop_params(ls) ==
    CHOOSE q \in [n : 1 .. MaxLoopCount, body : LoopBodies, tail : LoopTails] :
        loop_source(q.n, q.body, q.tail) = ls

\* The number of `print` statements in a sequence of instructions.
prints_in(is) == Cardinality({k \in 1 .. Len(is) : is[k].op = "Print"})

\* The run of a loop source has halted past the end of the program after
\* executing the movi, the body and the bne n times each, and the tail.
LoopDone ==
    /\ lines \in LoopSources
    /\ LET q == loop_params(lines)
       IN  /\ run_status = "halted"
           /\ interp_i = Len(insts)
           /\ steps = loop_steps(q.n, q.body, q.tail)
           /\ Len(output) = q.n * prints_in(q.body) + prints_in(q.tail)
           /\ regs[0] = U64Zero

\* C11 (backward-branch loop): the interpreter's run of the program
\* assembled from `movi v0, n`, `L1:`, a body with one `dec v0`,
\* `bne v0, v1, L1` (v1 = 0) eventually halts, having executed the body
\* exactly n times and then the instructions after the bne.
C11_LoopRunsNTimes ==
    (lines \in LoopSources /\ run_status = "running") ~> LoopDone

\* C11 witness: the loop of the scenario (n = 3) with a print in the body
\* and one after the loop has halted after 11 instructions and 4 prints.
C11_Witness ==
    /\ lines = loop_source(3, <<PrintInst, Dec(0)>>, <<PrintInst>>)
    /\ insts = <<Movi(0, U32Of(3)), PrintInst, Dec(0), Bne(0, 1, U32Of(1)),
                 PrintInst>>
    /\ run_status = "halted"
    /\ steps = 11
    /\ Len(output) = 4

\* The opcode numbers of the binary format's table.
OpcodeTable ==
    "Mov" :> 0 @@ "Movi" :> 1 @@ "Ldai" :> 2 @@ "Lda" :> 3 @@ "Sta" :> 4 @@
    "Add" :> 5 @@ "Dec" :> 6 @@ "Bne" :> 7 @@ "Print" :> 8

\* Byte k (0 the least significant) of a 32-bit value.
le_byte(imm, k) ==
    CASE k = 0 -> imm.lo % ByteRange
      [] k = 1 -> (imm.lo \div ByteRange) % ByteRange
      [] k = 2 -> imm.hi % ByteRange
      [] k = 3 -> (imm.hi \div ByteRange) % ByteRange

\* The four bytes of a 32-bit field, least significant first.
le_field(imm) == [k \in 1 .. 4 |-> le_byte(imm, k - 1)]

\* The bytes of one instruction by the table: the opcode, then the
\* register operands (one byte each), then the 32-bit field.
table_bytes(inst) ==
    LET op == inst.op
    IN  <<OpcodeTable[op]>> \o
        (IF op \in {"Mov", "Movi", "Lda", "Sta", "Add", "Dec", "Bne"}
         THEN <<inst.v1>> ELSE <<>>) \o
        (IF op \in {"Mov", "Bne"} THEN <<inst.v2>> ELSE <<>>) \o
        (IF op \in {"Movi", "Ldai", "Bne"} THEN le_field(inst.imm) ELSE <<>>)

\* The bytes of the first n instructions, one after the other.
RECURSIVE table_stream(_, _)
table_stream(is, n) ==
    IF n = 0 THEN <<>>
    ELSE table_stream(is, n - 1) \o table_bytes(is[n])

\* The file of the scenario: 01 00 05 00 00 00 03 00 08.
PrintFiveBytes == <<1, 0, 5, 0, 0, 0, 3, 0, 8>>

\* C12 (binary layout): the file holds, for the instructions written so
\* far, the opcode byte and operands of each by the table, with nothing in
\* between; the source `movi v0, 5` / `lda v0` / `print` assembles to
\* 01 00 05 00 00 00 03 00 08 and the interpreter's run of the decoded
\* program prints 5 and nothing else.
C12_BinaryLayout ==
    /\ file = table_stream(instructions, written)
    /\ (lines = PrintFiveSource /\ fetch_status # "no_file"
          /\ written = Len(instructions)) => file = PrintFiveBytes
    /\ (lines = PrintFiveSource /\ run_status = "halted") =>
          output = <<u32_as_u64(U32Of(5))>>

\* C12 witness: the scenario's source was assembled to its nine bytes,
\* decoded and run to the end, and 5 was printed.
C12_Witness ==
    /\ lines = PrintFiveSource
    /\ file = PrintFiveBytes
    /\ insts = <<Movi(0, U32Of(5)), Lda(0), PrintInst>>
    /\ run_status = "halted"
    /\ output = <<u32_as_u64(U32Of(5))>>

\* C12 witness of the general layout: a source with all nine forms was
\* written out in full (36 bytes).
C12_WitnessAllForms ==
    /\ lines = AllFormsSource
    /\ written = 10
    /\ Len(file) = 36
    /\ fetch_status = "returned"
    /\ vm_ret = instructions

-----------------------------------------------------------------------------
(* Register operands: specification and claims                             *)

\* Texts put where a statement expects a register.
RegOperands ==
    {<<"v", "0">>, <<"v", "7">>, <<"v", "2", "5", "5">>, <<"v", "0", "0", "7">>,
     <<"v", "2", "5", "6">>, <<"v", "3", "0", "0">>, <<"v", "1", "0", "0", "0">>,
     <<"v">>, <<"v", "x">>, <<"v", "1", "x">>, <<"x", "1">>, <<"V", "1">>,
     <<"r", "0">>, <<"5">>, <<"2", "5", "5">>, <<",">>, <<"%">>}

\* The statements with a register operand X: `lda X`, `sta X`, `add X`,
\* `dec X`, `mov X, v1`, `mov v1, X`, `movi X, 5`.
RegForms == {"lda", "sta", "add", "dec", "mov1", "mov2", "movi"}

\* The text of the statement of a form with operand x, on a line.
reg_stmt_text(form, x) ==
    ( CASE form = "lda" -> mnemonic_text("Lda") \o <<" ">> \o x
        [] form = "sta" -> mnemonic_text("Sta") \o <<" ">> \o x
        [] form = "add" -> mnemonic_text("Add") \o <<" ">> \o x
        [] form = "dec" -> mnemonic_text("Dec") \o <<" ">> \o x
        [] form = "mov1" ->
               mnemonic_text("Mov") \o <<" ">> \o x \o <<",", " ">> \o reg_text(1)
        [] form = "mov2" ->
               mnemonic_text("Mov") \o <<" ">> \o reg_text(1) \o <<",", " ">> \o x
        [] form = "movi" ->
               mnemonic_text("Movi") \o <<" ">> \o x \o <<",", " ", "5">> )
    \o <<"\n">>

\* The statement as it is kept in `lines`: its form and its operand text.
RegLine(form, x) == [kind |-> form, name |-> x, inst |-> PrintInst]

InitRegs ==
    /\ \E form \in RegForms, x \in RegOperands :
          /\ lines = <<RegLine(form, x)>>
          /\ src = reg_stmt_text(form, x)
    /\ overflow_checks \in BOOLEAN
    /\ debug_assertions = overflow_checks
    /\ lex = lexer_new
    /\ ret = <<>>
    /\ labels = <<>>
    /\ parse_status = "idle"
    /\ scan_calls = <<>>
    /\ CodecIdle
    /\ LeadersIdle
    /\ LayoutIdle
    /\ DfgIdle
    /\ InterpIdle

NextRegs == ParseStart \/ ParseStep

\* The parser run on one statement with some text in a register position.
SpecRegs == InitRegs /\ [][NextRegs]_vars

\* The text is `v` followed by one or more decimal digits.
is_reg_shape(x) ==
    /\ Len(x) >= 2
    /\ x[1] = "v"
    /\ \A k \in 2 .. Len(x) : x[k] \in Range(Digits)

\* The number that the digits x[2 .. k] write.
RECURSIVE digits_value(_, _)
digits_value(x, k) ==
    IF k < 2 THEN 0
    ELSE 10 * digits_value(x, k - 1) +
         (CHOOSE d \in 0 .. 9 : Digits[d + 1] = x[k])

\* The instruction of a form with register r.
reg_form_inst(form, r) ==
    CASE form = "lda" -> [op |-> "Lda", v1 |-> r, v2 |-> 0, imm |-> U32Zero]
      [] form = "sta" -> [op |-> "Sta", v1 |-> r, v2 |-> 0, imm |-> U32Zero]
      [] form = "add" -> [op |-> "Add", v1 |-> r, v2 |-> 0, imm |-> U32Zero]
      [] form = "dec" -> [op |-> "Dec", v1 |-> r, v2 |-> 0, imm |-> U32Zero]
      [] form = "mov1" -> [op |-> "Mov", v1 |-> r, v2 |-> 1, imm |-> U32Zero]
      [] form = "mov2" -> [op |-> "Mov", v1 |-> 1, v2 |-> r, imm |-> U32Zero]
      [] form = "movi" -> [op |-> "Movi", v1 |-> r, v2 |-> 0, imm |-> U32Of(5)]

\* The ways handle_reg ends when it does not return a register.
RegErrors ==
    {"panic_not_a_word", "panic_assert_v", "panic_assert_digit",
     "panic_parse_u8"}

\* The statement was parsed to the instruction with the register that the
\* operand's digits write, and nothing else was emitted.
RegAccepted ==
    /\ parse_status \in {"parsing", "returned"}
    /\ ret = <<reg_form_inst(lines[1].kind,
                             digits_value(lines[1].name, Len(lines[1].name)))>>

\* The statement ended in a register error and nothing was emitted.
RegRejected ==
    /\ parse_status \in RegErrors
    /\ ret = <<>>

\* The parser has dealt with the statement.
RegStmtDone == parse_status \notin {"idle", "parsing"} \/ ret # <<>>

\* C16 (register operands, as the code has it): the text in a register
\* position is accepted exactly when it is `v` followed by one or more
\* decimal digits that write a number of at most 255, and the register is
\* that number; every other text, `v` with a larger number included, ends
\* the parse in a register error with no instruction emitted.
C16_RegisterOperands ==
    RegStmtDone =>
        IF /\ is_reg_shape(lines[1].name)
           /\ digits_value(lines[1].name, Len(lines[1].name)) < ByteRange
        THEN RegAccepted
        ELSE RegRejected

\* C16 as stated: every `v` followed by one or more decimal digits is
\* accepted with the register id that the digits write, and every other
\* text is a register error with nothing emitted.
C16_AnyDigitsAccepted ==
    RegStmtDone =>
        IF is_reg_shape(lines[1].name) THEN RegAccepted ELSE RegRejected

\* C16 witness: `mov v1, v255` was emitted as Mov(1, 255).
C16_Witness ==
    /\ lines = <<RegLine("mov2", <<"v", "2", "5", "5">>)>>
    /\ parse_status = "returned"
    /\ ret = <<Mov(1, ByteRange - 1)>>

\* C16 witness of a rejection: `lda v` ended in an error with nothing
\* emitted.
C16_WitnessRejected ==
    /\ lines = <<RegLine("lda", <<"v">>)>>
    /\ parse_status = "panic_parse_u8"
    /\ ret = <<>>

-----------------------------------------------------------------------------
(* End of input: specification and claims                                  *)

\* The tokens of a statement of each form, in source order.
StmtTokenTexts ==
    {<<mnemonic_text("Mov"), reg_text(1), <<",">>, reg_text(0)>>,
     <<mnemonic_text("Movi"), reg_text(0), <<",">>, <<"5">>>>,
     <<mnemonic_text("Ldai"), <<"7">>>>,
     <<mnemonic_text("Lda"), reg_text(2)>>,
     <<mnemonic_text("Sta"), reg_text(2)>>,
     <<mnemonic_text("Add"), reg_text(2)>>,
     <<mnemonic_text("Dec"), reg_text(2)>>,
     <<mnemonic_text("Bne"), reg_text(0), <<",">>, reg_text(1), <<",">>, L1>>,
     <<mnemonic_text("Print")>>}

\* The first k tokens of a statement, each followed by a blank.
RECURSIVE tokens_text(_, _)
tokens_text(toks, k) ==
    IF k = 0 THEN <<>>
    ELSE tokens_text(toks, k - 1) \o toks[k] \o <<" ">>

\* A source that ends after the first k tokens of a statement: `print`
\* and the declaration of L1 on lines of their own, then the tokens and
\* the end of the line.
cut_source(toks, k) ==
    source_text(<<InstLine(PrintInst), LabelLine(L1)>>, 1) \o
    tokens_text(toks, k) \o <<"\n">>

\* The source as it is kept in `lines`: the statement's tokens and the
\* number of them that the source holds.
CutLine(toks, k) ==
    [kind |-> "cut", name |-> toks, inst |-> PrintInst, cut |-> k]

InitEof ==
    /\ \E toks \in StmtTokenTexts :
       \E k \in 0 .. Len(toks) :
          /\ lines = <<CutLine(toks, k)>>
          /\ src = cut_source(toks, k)
    /\ overflow_checks \in BOOLEAN
    /\ debug_assertions = overflow_checks
    /\ lex = lexer_new
    /\ ret = <<>>
    /\ labels = <<>>
    /\ parse_status = "idle"
    /\ scan_calls = <<>>
    /\ CodecIdle
    /\ LeadersIdle
    /\ LayoutIdle
    /\ DfgIdle
    /\ InterpIdle

NextEof == ParseStart \/ ParseStep

\* The parser run on a source that ends at a token boundary of its last
\* statement.
SpecEof == InitEof /\ [][NextEof]_vars

\* The instruction that the whole statement stands for; L1 is bound to 1,
\* the number of instructions before its declaration.
stmt_inst(toks) ==
    CASE toks[1] = mnemonic_text("Mov") -> Mov(1, 0)
      [] toks[1] = mnemonic_text("Movi") -> Movi(0, U32Of(5))
      [] toks[1] = mnemonic_text("Ldai") -> Ldai(U32Of(7))
      [] toks[1] = mnemonic_text("Lda") -> Lda(2)
      [] toks[1] = mnemonic_text("Sta") -> Sta(2)
      [] toks[1] = mnemonic_text("Add") -> Add(2)
      [] toks[1] = mnemonic_text("Dec") -> Dec(2)
      [] toks[1] = mnemonic_text("Bne") -> Bne(0, 1, U32Of(1))
      [] toks[1] = mnemonic_text("Print") -> PrintInst

\* The ways the parser ends when a token it needs is not there.
EofErrors ==
    {"panic_not_a_word", "panic_not_a_num", "panic_token_mismatch",
     "panic_label_not_found"}

\* C17 (end of input): when the input ends where a mnemonic is expected
\* (before a statement or after a whole one) the parse returns the
\* instructions emitted so far; when it ends where an operand, a `,` or a
\* label operand of the current mnemonic is expected, the parse ends in an
\* error and the instruction of that statement is not emitted.
C17_EndOfInput ==
    LET toks == lines[1].name
        k == lines[1].cut
    IN  /\ parse_status = "returned" =>
              /\ k \in {0, Len(toks)}
              /\ ret = IF k = 0 THEN <<PrintInst>>
                       ELSE <<PrintInst, stmt_inst(toks)>>
        /\ parse_status \notin {"idle", "parsing", "returned"} =>
              /\ 0 < k /\ k < Len(toks)
              /\ parse_status \in EofErrors
              /\ ret = <<PrintInst>>
        /\ parse_status = "parsing" =>
              \/ ret \in {<<>>, <<PrintInst>>}
              \/ k = Len(toks) /\ ret = <<PrintInst, stmt_inst(toks)>>

\* C17 witness: the source ends after `bne v0 , v1 ,`, where the label is
\* expected; the parse ended in an error with only the earlier `print`
\* emitted.
C17_Witness ==
    /\ lines[1].name[1] = mnemonic_text("Bne")
    /\ lines[1].cut = 5
    /\ parse_status = "panic_label_not_found"
    /\ ret = <<PrintInst>>

\* C17 witness of the successful end: the source ends after the whole
\* `movi v0 , 5`, and the parse returned both instructions.
C17_WitnessReturned ==
    /\ lines[1].name[1] = mnemonic_text("Movi")
    /\ lines[1].cut = 4
    /\ parse_status = "returned"
    /\ ret = <<PrintInst, Movi(0, U32Of(5))>>

-----------------------------------------------------------------------------
(* The scanner on numbers                                                  *)

\* What stands before a number, the numbers, and what follows them: the
\* end of the line, a stray `.`, a `.` and a blank, a `.` and a digit, a
\* blank and a `.`, the end of the file, a `.` at the end of the file.
ScanPrefixes ==
    {<<>>, <<"l", "d", "a", "i", " ">>,
     <<"m", "o", "v", "i", " ", "v", "0", ",", " ">>}

ScanNumbers ==
    {<<"5">>, <<"1", "2">>, <<"2", "5", "5">>, <<"7", "0", "0", "0", "0">>}

ScanSuffixes ==
    {<<"\n">>, <<".", "\n">>, <<".", " ", "\n">>, <<".", "5", "\n">>,
     <<" ", ".", "\n">>, <<>>, <<".">>}

ScanTexts ==
    {p \o n \o x : p \in ScanPrefixes, n \in ScanNumbers, x \in ScanSuffixes}

InitScan ==
    /\ src \in ScanTexts
    /\ lines = <<>>
    /\ lex = lexer_new
    /\ ret = <<>>
    /\ labels = <<>>
    /\ parse_status = "idle"
    /\ scan_calls = <<>>
    /\ overflow_checks \in BOOLEAN
    /\ debug_assertions = overflow_checks
    /\ CodecIdle
    /\ LeadersIdle
    /\ LayoutIdle
    /\ DfgIdle
    /\ InterpIdle

NextScan == ScanStart \/ ScanCall

SpecScan == InitScan /\ [][NextScan]_vars

\* The characters the lexer has not consumed: its peek and the rest of
\* the file.
unscanned == <<lex.peek>> \o SubSeq(src, lex.pos + 1, Len(src))

\* s from its first character that is not a blank.
RECURSIVE drop_blanks(_)
drop_blanks(s) ==
    IF s # <<>> /\ Head(s) \in {" ", "\t", "\n"}
    THEN drop_blanks(Tail(s))
    ELSE s

\* The length of the run of decimal digits that s starts with.
RECURSIVE run_length(_)
run_length(s) ==
    IF s # <<>> /\ Head(s) \in Range(Digits)
    THEN 1 + run_length(Tail(s))
    ELSE 0

\* The decimal value of the digits s[1..k].
RECURSIVE run_value(_, _)
run_value(s, k) ==
    IF k = 0 THEN 0
    ELSE 10 * run_value(s, k - 1) +
         (CHOOSE d \in 0 .. 9 : Digits[d + 1] = s[k])

\* A call of scan that meets a run of digits returns the number of the
\* run's value and leaves the character after the run in peek.
NumberScanned ==
    LET s == drop_blanks(unscanned)
        k == run_length(s)
        v == run_value(s, k)
    IN  (parse_status = "scanning" /\ k > 0 /\ scan_calls' # scan_calls) =>
            /\ scan_calls'[Len(scan_calls')] =
                   NumTok(U32(v \div Limb, v % Limb))
            /\ k < Len(s) => lex'.peek = s[k + 1]

\* C20 (scanner numbers): a run of decimal digits is returned as one
\* number token with the run's value, also when a stray `.` follows the
\* run; the `.` is not consumed and is left for the next scan.
C20_NumberScanned == [][NumberScanned]_vars

\* C21 (assembly ends): every call of the scanner returns a token after
\* finitely many character reads, also when the source's last character
\* is a digit or a letter: no call is left in a loop that runs forever.
C21_ScanReturns == parse_status # "diverge"

-----------------------------------------------------------------------------
(* The programs the assembler emits                                        *)

\* The statements of the sources: two labels, each declared any number of
\* times or not at all, a branch to each, and a register set to 2.
EmittedLines ==
    {LabelLine(L1), LabelLine(L2), BneLine(0, 1, L1), BneLine(1, 0, L2),
     InstLine(Movi(0, U32Of(2)))}

InitEmitted ==
    /\ lines \in SeqsUpTo(EmittedLines, MaxLines)
    /\ src = source_text(lines, 1)
    /\ overflow_checks \in BOOLEAN
    /\ debug_assertions = overflow_checks
    /\ lex = lexer_new
    /\ ret = <<>>
    /\ labels = <<>>
    /\ parse_status = "idle"
    /\ scan_calls = <<>>
    /\ instructions = <<>>
    /\ file = <<>>
    /\ written = 0
    /\ buffer = <<>>
    /\ iter = 1
    /\ vm_ret = <<>>
    /\ fetch_status = "no_file"
    /\ insts = <<>>
    /\ acc = U64Zero
    /\ regs = [r \in 0 .. NumRegs - 1 |-> U64Zero]
    /\ interp_i = 0
    /\ output = <<>>
    /\ run_status = "not_called"
    /\ steps = 0
    /\ bc = <<>>
    /\ leaders = <<>>
    /\ fl_i = 0
    /\ fl_status = "not_called"
    /\ LayoutIdle
    /\ DfgIdle

NextEmitted ==
    \/ ParseStart
    \/ ParseStep
    \/ AsmMain
    \/ WriteInst
    \/ FetchStart
    \/ FetchStep
    \/ VmMain
    \/ InterpStart
    \/ InterpStep
    \/ VmMainFindLeaders
    \/ FindLeadersStart
    \/ FindLeadersStep

\* The assembler on a source, then the vm on the file it wrote, with the
\* decoded program given to interpret and to find_leaders.
SpecEmitted == InitEmitted /\ [][NextEmitted]_vars

\* Every bne of the program has a target that is at most its own index.
BranchesBackward(prog) ==
    \A k \in 1 .. Len(prog) :
        prog[k].op = "Bne" =>
            prog[k].imm.hi * Limb + prog[k].imm.lo <= k - 1

\* C23 (emitted branch targets): in every program the assembler emits,
\* each bne at index i has a target t <= i; when such a program is
\* interpreted the instruction pointer never exceeds the program's
\* length, and every index find_leaders returns for it is below the
\* length.
C23_EmittedTargets ==
    /\ BranchesBackward(ret)
    /\ BranchesBackward(instructions)
    /\ BranchesBackward(insts)
    /\ BranchesBackward(bc)
    /\ interp_i <= Len(insts)
    /\ run_status # "panic_index_out_of_bounds"
    /\ \A k \in 1 .. Len(leaders) : leaders[k] < Len(bc)

\* C23 witness: `L1:` / `movi v0, 2` / `L1:` / `bne v0, v1, L1`, with L1
\* declared twice, gave the bne at index 1 the target 1; find_leaders
\* has returned for the program and interpret has taken the branch.
C23_Witness ==
    /\ lines = <<LabelLine(L1), InstLine(Movi(0, U32Of(2))), LabelLine(L1),
                 BneLine(0, 1, L1)>>
    /\ insts = <<Movi(0, U32Of(2)), Bne(0, 1, U32Of(1))>>
    /\ bc = insts
    /\ fl_status = "returned"
    /\ leaders = <<0, 1>>
    /\ steps >= 3
    /\ interp_i = 1

=============================================================================
